---- MODULE Spec2Model ----
(***************************************************************************)
(* Shopify store analyzer: the extraction-and-scoring engine.              *)
(*                                                                         *)
(*   - WebScraper.get_all_products_paginated   (services/scraper.py)       *)
(*   - DataExtractor.extract_complete_insights (services/data_extractor.py)*)
(*   - CompetitorAnalyzer._calculate_similarity                            *)
(*                                         (services/compititor_analysis.py)*)
(*   - the extractors and helpers extract_complete_insights is built on:   *)
(*     extract_hero_products, extract_faqs and the FAQ strategies,         *)
(*     extract_products_from_json, extract_social_links,                   *)
(*     extract_important_links, get_page_content / get_json_content        *)
(*   - analyze_store and analyze_competitors   (api/routes.py)             *)
(*   - normalize_url of scraper.py and of utils/helpers.py                 *)
(*   - DataExtractor._extract_faqs_from_page                               *)
(*   - two requests running analyze_store at once                          *)
(*   - DatabaseService.save_competitor_analysis                            *)
(*                                       (services/database_service.py)    *)
(*   - CompetitorAnalyzer.analyze_competitors and _find_competitors        *)
(*                                                                         *)
(* Each part has its own variables and its own specification; a            *)
(* specification holds the variables of the other parts at their idle      *)
(* values.                                                                 *)
(*                                                                         *)
(* Conventions.  Optional[T] is a sequence of length at most one: None is  *)
(* <<>> and a present value v is <<v>>.  Python floats are exact rationals *)
(* <<numerator, denominator>> with a positive denominator; round(x, 3) is  *)
(* a number of thousandths.                                                *)
(***************************************************************************)
EXTENDS Integers, Sequences, FiniteSets, TLC

VARIABLES
    \* ---- CompetitorAnalyzer._calculate_similarity ----
    main_brand,        \* argument main_brand: BrandInsights
    competitor,        \* argument competitor: BrandInsights
    sim_pc,            \* "call" | "returned" | "escaped" | "idle"
    sim_result,        \* the returned float, in thousandths
    sim_components,    \* the four components before weighting
    sim_error,         \* TRUE iff the except branch (lines 315-317) ran
    \* ---- WebScraper.get_all_products_paginated ----
    pg_pc,             \* "loop" | "done" | "raised" | "idle"
    page,              \* local variable page
    all_products,      \* local variable all_products (the accumulator)
    pg_bodies,         \* what get_json_content returned, request by request
    requests,          \* every request issued so far, in order
    \* ---- DataExtractor.extract_complete_insights ----
    ex_pc,             \* the statement the call is at; "returned" | "escaped"
    url,               \* parameter and local variable url
    locals,            \* the other local variables of the call
    ex_result,         \* the BrandInsights returned
    ex_raised,         \* the exception the except clause caught, if any
    \* ---- one call of a single function or method ----
    fn_pc,             \* "call" | "retry" | "returned" | "raised" | "idle"
    fn_args,           \* the arguments of the call
    fn_result,         \* what the call returned; for a fetch, its attempts too
    \* ---- routes.analyze_store, routes.analyze_competitors ----
    rt_pc,             \* the statement the handler is at
    rt_request,        \* the endpoint, save_to_db and max_competitors
    rt_locals,         \* local variables insights and analysis_id
    rt_calls,          \* the collaborators called so far, in order
    rt_response,       \* the response of the request
    \* ---- two concurrent requests to analyze_store ----
    cc_pc,             \* per request: "new" | "fetch" | "assemble" | "done"
    cc_extractor,      \* per request: its DataExtractor (0 before injection)
    cc_sessions,       \* per DataExtractor: the cookies of its scraper's session
    cc_locals          \* per request: the store, the bodies fetched, the result

sim_vars == <<main_brand, competitor, sim_pc, sim_result, sim_components, sim_error>>

pg_vars == <<pg_pc, page, all_products, pg_bodies, requests>>

ex_vars == <<ex_pc, url, locals, ex_result, ex_raised>>

fn_vars == <<fn_pc, fn_args, fn_result>>

rt_vars == <<rt_pc, rt_request, rt_locals, rt_calls, rt_response>>

cc_vars == <<cc_pc, cc_extractor, cc_sessions, cc_locals>>

vars == <<sim_vars, pg_vars, ex_vars, fn_vars, rt_vars, cc_vars>>

\* No single function is under call.
FnIdle ==
    /\ fn_pc = "idle"
    /\ fn_args = <<>>
    /\ fn_result = <<>>

\* No request is being handled.
RtIdle ==
    /\ rt_pc = "idle"
    /\ rt_request = <<>>
    /\ rt_locals = <<>>
    /\ rt_calls = <<>>
    /\ rt_response = <<>>

\* No concurrent requests are being served.
CcIdle ==
    /\ cc_pc = <<>>
    /\ cc_extractor = <<>>
    /\ cc_sessions = <<>>
    /\ cc_locals = <<>>

None == <<>>
Some(v) == <<v>>

\* Python truthiness of an Optional[float]: None and 0.0 are falsy.
TruthyNum(o) == o # None /\ o[1] # 0

\* Python truthiness of an Optional[str]: None and "" are falsy.
TruthyStr(o) == o # None /\ o[1] # ""

Min(a, b) == IF a <= b THEN a ELSE b
Max(a, b) == IF a >= b THEN a ELSE b
Abs(a) == IF a < 0 THEN -a ELSE a

RECURSIVE Gcd(_, _)
Gcd(a, b) == IF b = 0 THEN a ELSE Gcd(b, a % b)

\* ---- exact rationals <<n, d>>, d > 0 ----
Rat(n, d) ==
    LET s == IF d < 0 THEN -1 ELSE 1
        g == Gcd(Abs(n), Abs(d))
    IN  <<(s * n) \div g, (s * d) \div g>>
RatAdd(x, y) == Rat(x[1] * y[2] + y[1] * x[2], x[2] * y[2])
RatScale(k, x) == Rat(k * x[1], x[2])
RatZero == <<0, 1>>

RECURSIVE SeqSum(_)
SeqSum(s) == IF s = <<>> THEN 0 ELSE Head(s) + SeqSum(Tail(s))

Range(s) == {s[i] : i \in DOMAIN s}

\* s[:n]
Take(s, n) == SubSeq(s, 1, Min(n, Len(s)))

(***************************************************************************)
(* str.lower() on the strings the inputs are drawn from.                   *)
(***************************************************************************)
Lower(s) ==
    CASE s = "Shoes" -> "shoes"
      [] s = "Hats"  -> "hats"
      [] s = "SALE"  -> "sale"
      [] OTHER       -> s

(***************************************************************************)
(*                   WebScraper.get_all_products_paginated                 *)
(***************************************************************************)

\* limit = 50 (scraper.py line 99)
PageLimit == 50

\* Most product-listing requests of one call the model follows.
MaxPages == 3

\* A request: which resource, and for a product-listing request its query
\* parameters (line 102).
Request(kind, limit, pageNo) == [kind |-> kind, limit |-> limit, page |-> pageNo]

\* JSON values as get_json_content returns them.
\*   "none"   : None
\*   "object" : a JSON object; has_products says whether it has the key
\*              'products', products is its value (a list)
\*   "scalar" : a truthy JSON value that is no container (5, true)
JsonNone == [kind |-> "none", has_products |-> FALSE, products |-> <<>>]
JsonScalar == [kind |-> "scalar", has_products |-> FALSE, products |-> <<>>]
JsonObject(hasProducts, products) ==
    [kind |-> "object", has_products |-> hasProducts, products |-> products]

\* What the server does with one JSON request.
\*   "request_exception" : session.get or raise_for_status raises a
\*                         requests RequestException (connection, timeout,
\*                         HTTP error status)
\*   "json_decode_error" : the body is no JSON
\*   "json"              : the body parses to `json`
JsonResponse(outcome, json) == [outcome |-> outcome, json |-> json]

\* scraper.py lines 80-88
GetJsonContent(response) ==
    IF response.outcome \in {"request_exception", "json_decode_error"}
      THEN JsonNone
      ELSE response.json

\* line 105: not data or 'products' not in data or not data['products'];
\* on a scalar the test 'products' not in data raises TypeError
StopTestRaises(data) == data.kind = "scalar"
StopTest(data) ==
    \/ data.kind = "none"
    \/ ~data.has_products
    \/ data.products = <<>>

\* line 108: all_products.extend(data['products'])
Extend_Unique(acc, products) ==
    acc \o SelectSeq(products, LAMBDA x : x \notin Range(acc))

Extend(acc, products) == acc \o products

\* line 110: len(data['products']) < limit
IsLastPage_Leq(products) == Len(products) <= PageLimit

IsLastPage(products) == Len(products) < PageLimit

\* lines 101-113: one iteration of the loop, the server answering `response`
PaginateIteration(response) ==
    LET data == GetJsonContent(response)
    IN  /\ pg_pc = "loop"
        /\ page <= MaxPages
        /\ requests' = Append(requests, Request("products", PageLimit, page))
        /\ pg_bodies' = Append(pg_bodies, data)
        /\ IF StopTestRaises(data)
             THEN /\ pg_pc' = "raised"
                  /\ UNCHANGED <<page, all_products>>
             ELSE IF StopTest(data)
             THEN /\ pg_pc' = "done"
                  /\ UNCHANGED <<page, all_products>>
             ELSE /\ all_products' = Extend(all_products, data.products)
                  /\ IF IsLastPage(data.products)
                       THEN pg_pc' = "done" /\ page' = page
                       ELSE pg_pc' = "loop" /\ page' = page + 1

\* Raw product records of products.json.
RawProduct(id, shape) == [id |-> id, shape |-> shape]

\* A product list of n entries, a at the odd places and b at the even ones.
ProductList(n, a, b) == [i \in 1..n |-> IF i % 2 = 1 THEN a ELSE b]

PgRawProducts == {RawProduct("p1", "dict"), RawProduct("p2", "dict")}

PgLens == {0, 1, PageLimit - 1, PageLimit, PageLimit + 1}

PgResponses ==
    {JsonResponse("request_exception", JsonNone),
     JsonResponse("json_decode_error", JsonNone),
     JsonResponse("json", JsonScalar),
     JsonResponse("json", JsonObject(FALSE, <<>>))}
    \cup {JsonResponse("json", JsonObject(TRUE, ProductList(n, a, b))) :
            n \in PgLens, a \in PgRawProducts, b \in PgRawProducts}

PgCall ==
    /\ pg_pc = "loop"
    /\ page = 1
    /\ all_products = <<>>
    /\ pg_bodies = <<>>

PgIdle ==
    /\ pg_pc = "idle"
    /\ page = 1
    /\ all_products = <<>>
    /\ pg_bodies = <<>>
    /\ requests = <<>>

PaginateStep ==
    /\ pg_pc = "loop" /\ ex_pc = "idle"
    /\ \E response \in PgResponses : PaginateIteration(response)
    /\ UNCHANGED <<sim_vars, ex_vars, fn_vars, rt_vars, cc_vars>>

PgNext == PaginateStep

(***************************************************************************)
(*                 CompetitorAnalyzer._calculate_similarity                *)
(***************************************************************************)

\* The seven fields of SocialHandles (models/schemas.py).
Platforms ==
    {"instagram", "facebook", "twitter", "tiktok", "youtube", "linkedin",
     "pinterest"}

\* product_catalog[:50] (lines 270 and 275)
SampleLimit == 50

\* lines 267-278: the lowercased product types and tags of the first 50
\* products of one side
CategoriesOf(brand) ==
    LET sample == Take(brand.product_catalog, SampleLimit)
    IN  UNION { (IF sample[i].product_type # ""
                   THEN {Lower(sample[i].product_type)} ELSE {})
                \cup {Lower(t) : t \in Range(sample[i].tags)}
              : i \in DOMAIN sample }

\* lines 280-283: category_similarity; 0 when the guard of line 280 fails
CategorySimilarity_MainOnly(m, c) ==
    LET mc == CategoriesOf(m)
        cc == CategoriesOf(c)
    IN  IF mc # {} /\ cc # {}
          THEN Rat(Cardinality(mc \cap cc), Cardinality(mc))
          ELSE RatZero

CategorySimilarity(m, c) ==
    LET mc == CategoriesOf(m)
        cc == CategoriesOf(c)
        category_overlap == Cardinality(mc \cap cc)
        category_union == Cardinality(mc \cup cc)
    IN  IF mc # {} /\ cc # {}
          THEN IF category_union > 0
                 THEN Rat(category_overlap, category_union)
                 ELSE RatZero
          ELSE RatZero

\* lines 287-288: [p.price for p in catalog if p.price]
RECURSIVE PricesOf(_)
PricesOf(catalog) ==
    IF catalog = <<>> THEN <<>>
    ELSE (IF TruthyNum(Head(catalog).price)
            THEN <<Head(catalog).price[1]>> ELSE <<>>)
         \o PricesOf(Tail(catalog))

\* lines 291-292: sum(prices) / len(prices)
Average(prices) == Rat(SeqSum(prices), Len(prices))

RatLeq(x, y) == x[1] * y[2] <= y[1] * x[2]
RatMax(x, y) == IF RatLeq(y, x) THEN x ELSE y
RatSub(x, y) == Rat(x[1] * y[2] - y[1] * x[2], x[2] * y[2])
RatAbs(x) == <<Abs(x[1]), x[2]>>

\* line 290: the guard of the price component
BothPriced(m, c) ==
    PricesOf(m.product_catalog) # <<>> /\ PricesOf(c.product_catalog) # <<>>

\* line 293: the division raises ZeroDivisionError when
\* max(main_avg, competitor_avg) is 0
PriceRaises(m, c) ==
    /\ BothPriced(m, c)
    /\ RatMax(Average(PricesOf(m.product_catalog)),
              Average(PricesOf(c.product_catalog)))[1] = 0

\* lines 291-294: price_similarity (defined when the division is)
PriceSimilarity_OverMain(m, c) ==
    LET main_avg == Average(PricesOf(m.product_catalog))
        competitor_avg == Average(PricesOf(c.product_catalog))
        diff == RatAbs(RatSub(main_avg, competitor_avg))
        price_diff == Rat(diff[1] * main_avg[2], diff[2] * main_avg[1])
    IN  IF BothPriced(m, c) /\ main_avg[1] # 0
          THEN RatMax(RatZero, RatSub(<<1, 1>>, price_diff))
          ELSE RatZero

PriceSimilarity(m, c) ==
    LET main_avg == Average(PricesOf(m.product_catalog))
        competitor_avg == Average(PricesOf(c.product_catalog))
        diff == RatAbs(RatSub(main_avg, competitor_avg))
        mx == RatMax(main_avg, competitor_avg)
        price_diff == Rat(diff[1] * mx[2], diff[2] * mx[1])
    IN  IF BothPriced(m, c)
          THEN RatMax(RatZero, RatSub(<<1, 1>>, price_diff))
          ELSE RatZero

\* lines 298-302: count_ratio; 0 when the guard of line 301 fails
CountRatio_Sampled(m, c) ==
    LET main_count == Len(Take(m.product_catalog, SampleLimit))
        competitor_count == Len(Take(c.product_catalog, SampleLimit))
    IN  IF main_count > 0 /\ competitor_count > 0
          THEN Rat(Min(main_count, competitor_count),
                   Max(main_count, competitor_count))
          ELSE RatZero

CountRatio(m, c) ==
    LET main_count == Len(m.product_catalog)
        competitor_count == Len(c.product_catalog)
    IN  IF main_count > 0 /\ competitor_count > 0
          THEN Rat(Min(main_count, competitor_count),
                   Max(main_count, competitor_count))
          ELSE RatZero

\* lines 306-307: len([v for v in social_handles.dict().values() if v])
SocialCount(brand) ==
    Cardinality({pl \in Platforms : TruthyStr(brand.social_handles[pl])})

\* lines 309-310: social_similarity; 0 when the guard of line 309 fails
SocialSimilarity(m, c) ==
    LET main_social == SocialCount(m)
        competitor_social == SocialCount(c)
    IN  IF main_social > 0 \/ competitor_social > 0
          THEN Rat(Min(main_social, competitor_social),
                   Max(Max(main_social, competitor_social), 1))
          ELSE RatZero

\* round(x, 3) of the float nearest to the rational x1000 / 1000, in
\* thousandths.  The float differs from the rational by far less than half a
\* thousandth, so the result is the nearest thousandth; when the rational is
\* exactly halfway the binary error decides, and either neighbour can result.
Round3(x1000) ==
    LET q == x1000[1] \div x1000[2]
        r == x1000[1] % x1000[2]
    IN  IF 2 * r < x1000[2] THEN {q}
        ELSE IF 2 * r > x1000[2] THEN {q + 1}
        ELSE {q, q + 1}

\* The weights of lines 284, 295, 303 and 311, in thousandths.
CategoryWeight == 400
PriceWeight == 300
CountWeight == 200
SocialWeight == 100

\* lines 264-311: similarity_score after the four components, times 1000
WeightedSum(comp) ==
    RatAdd(RatAdd(RatScale(CategoryWeight, comp.category),
                  RatScale(PriceWeight, comp.price)),
           RatAdd(RatScale(CountWeight, comp.count),
                  RatScale(SocialWeight, comp.social)))

\* lines 315-317: except Exception: return 0.0.  `partial` is the
\* similarity_score accumulated when the exception was raised.
SimilarityExcept_KeepPartial(partial) == Round3(partial)

SimilarityExcept(partial) == {0}

\* The components computed by one call when no step raises.
Components(m, c) ==
    [category |-> CategorySimilarity(m, c),
     price    |-> PriceSimilarity(m, c),
     count    |-> CountRatio(m, c),
     social   |-> SocialSimilarity(m, c)]

\* The components accumulated when line 293 raises: the category term only.
ComponentsBeforePrice(m, c) ==
    [category |-> CategorySimilarity(m, c),
     price    |-> RatZero,
     count    |-> RatZero,
     social   |-> RatZero]

\* lines 261-317, one call
CalculateSimilarity ==
    /\ sim_pc = "call"
    /\ IF PriceRaises(main_brand, competitor)
         THEN /\ sim_components' = ComponentsBeforePrice(main_brand, competitor)
              /\ sim_result' \in SimilarityExcept(WeightedSum(sim_components'))
              /\ sim_error' = TRUE
         ELSE /\ sim_components' = Components(main_brand, competitor)
              /\ sim_result' \in Round3(WeightedSum(sim_components'))
              /\ sim_error' = FALSE
    /\ sim_pc' = "returned"
    /\ UNCHANGED <<main_brand, competitor>>
    /\ UNCHANGED <<pg_vars, ex_vars, fn_vars, rt_vars, cc_vars>>

SimNext == CalculateSimilarity

(***************************************************************************)
(* Inputs of _calculate_similarity.  A ProductModel is reduced to the      *)
(* fields the scorer reads.  Prices are those the product normaliser       *)
(* yields: float(first_variant.get('price', 0)) accepts any decimal        *)
(* string, negative ones included, gives 0.0 for a variant without a       *)
(* price, and the price is None for a product without variants.            *)
(***************************************************************************)
Product(type, tags, price) ==
    [product_type |-> type, tags |-> tags, price |-> price]

SimProducts ==
    {Product("shoes", <<>>, Some(50)),
     Product("shoes", <<>>, Some(60)),
     Product("shoes", <<>>, Some(55)),
     Product("Hats", <<"Shoes", "SALE">>, Some(-50)),
     Product("", <<"sale">>, Some(-20)),
     Product("belts", <<>>, Some(0))}

\* The product that fills the first 50 places of a long catalog.
PadProduct == Product("bags", <<"sale">>, None)

\* Longest catalogs enumerated product by product, for each argument.
MaxMainLen == 2
MaxCompetitorLen == 1

ShortCatalogs(maxLen) == UNION {[1..n -> SimProducts] : n \in 0..maxLen}

\* Catalogs that exceed the 50-product sample: 50 pad products, then
\* nothing or one more product.
LongCatalogs ==
    {[i \in 1..SampleLimit |-> PadProduct] \o tail :
        tail \in {<<>>} \cup {<<p>> : p \in SimProducts}}

SocialWith(filled) ==
    [pl \in Platforms |-> IF pl \in filled THEN Some("https://" \o pl \o ".com/acme")
                                           ELSE None]

SimSocials ==
    {SocialWith({}), SocialWith({"instagram"}),
     SocialWith({"facebook", "tiktok"})}

SimBrands(maxLen) ==
    {[product_catalog |-> cat, social_handles |-> so] :
        cat \in ShortCatalogs(maxLen) \cup LongCatalogs, so \in SimSocials}

SimIdle ==
    /\ main_brand = [product_catalog |-> <<>>, social_handles |-> SocialWith({})]
    /\ competitor = [product_catalog |-> <<>>, social_handles |-> SocialWith({})]
    /\ sim_pc = "idle"
    /\ sim_result = 0
    /\ sim_components = ComponentsBeforePrice(main_brand, competitor)
    /\ sim_error = FALSE

SimInit ==
    /\ main_brand \in SimBrands(MaxMainLen)
    /\ competitor \in SimBrands(MaxCompetitorLen)
    /\ sim_pc = "call"
    /\ sim_result = 0
    /\ sim_components =
         [category |-> RatZero, price |-> RatZero, count |-> RatZero,
          social |-> RatZero]
    /\ sim_error = FALSE

(***************************************************************************)
(*                 DataExtractor.extract_complete_insights                 *)
(***************************************************************************)

\* A URL is the sequence of its pieces, each "/" a piece of its own:
\* "https://acme.com/" is <<"https:", "/", "/", "acme.com", "/">>.
HttpPrefix == <<"http:", "/", "/">>
HttpsPrefix == <<"https:", "/", "/">>

\* str.startswith
StartsWith(u, prefix) ==
    Len(u) >= Len(prefix) /\ SubSeq(u, 1, Len(prefix)) = prefix

\* str.rstrip('/')
RECURSIVE RStripSlash(_)
RStripSlash(u) ==
    IF u # <<>> /\ u[Len(u)] = "/" THEN RStripSlash(SubSeq(u, 1, Len(u) - 1))
    ELSE u

\* scraper.py lines 41-45
NormalizeUrl(u) ==
    RStripSlash(IF StartsWith(u, HttpPrefix) \/ StartsWith(u, HttpsPrefix)
                  THEN u ELSE HttpsPrefix \o u)

\* The fields of PolicyInfo and ImportantLinks (models/schemas.py).
PolicyTypes ==
    {"privacy_policy", "return_policy", "refund_policy", "terms_of_service",
     "shipping_policy"}
LinkKeys ==
    {"order_tracking", "contact_us", "blog", "size_guide", "careers", "about_us"}

\* ContactDetails(), SocialHandles(), PolicyInfo(), ImportantLinks()
DefaultContactDetails ==
    [emails |-> {}, phone_numbers |-> {}, address |-> None,
     contact_page_url |-> None]
DefaultSocialHandles == [pl \in Platforms |-> None]
DefaultPolicyInfo == [t \in PolicyTypes |-> None]
DefaultImportantLinks == [k \in LinkKeys |-> None]

FAQ(question, answer, category) ==
    [question |-> question, answer |-> answer, category |-> category]

\* A ProductModel of the catalog, reduced to its identity and its url.
CatalogProduct(raw) == [id |-> raw.id, url |-> "/products/" \o raw.id]

(***************************************************************************)
(* The homepage as the extractors see it.                                  *)
(*   title         : text of <title> without its suffix, "" when absent    *)
(*   og_site_name  : content of <meta property="og:site_name">, "" if none *)
(*   html_empty    : str(soup) is the empty string                         *)
(*   bad_href      : "none", or where the page has a hyperlink             *)
(*                   href="//[..." on which urljoin raises ValueError      *)
(*                   ("Invalid IPv6 URL"): "product" when the href holds   *)
(*                   /products/, "plain" otherwise                         *)
(*   product_links : urls of the product hyperlinks                        *)
(*   emails        : e-mail addresses in the text                          *)
(*   links         : what scraper.extract_important_links finds            *)
(*   policy_links  : what scraper.extract_policy_links finds, in order     *)
(*   faq_urls      : what _find_faq_links finds, in order                  *)
(*   home_faqs     : question/answer pairs of the FAQ sections             *)
(*   about_text    : text of the first about element with more than 50     *)
(*                   characters, "" when there is none                     *)
(*   social        : what scraper.extract_social_links finds               *)
(***************************************************************************)
LinksWith(found) ==
    [k \in LinkKeys |-> IF k \in DOMAIN found THEN Some(found[k]) ELSE None]

DocBare ==
    [title |-> "Acme", og_site_name |-> "", html_empty |-> FALSE,
     bad_href |-> "none", product_links |-> {}, emails |-> {}, links |-> DefaultImportantLinks,
     policy_links |-> <<>>, faq_urls |-> <<>>, home_faqs |-> <<>>,
     about_text |-> "", social |-> DefaultSocialHandles]

DocEmpty == [DocBare EXCEPT !.title = "", !.html_empty = TRUE]

DocRich ==
    [title |-> "Acme", og_site_name |-> "", html_empty |-> FALSE,
     bad_href |-> "none", product_links |-> {"/products/p1"},
     emails |-> {"hi@acme.com"},
     links |-> LinksWith([contact_us |-> "/pages/contact",
                          about_us |-> "/pages/about"]),
     policy_links |-> <<[type |-> "privacy_policy", url |-> "/policies/privacy"],
                        [type |-> "refund_policy", url |-> "/policies/refund"]>>,
     faq_urls |-> <<"/pages/faq", "/pages/help">>,
     home_faqs |-> <<FAQ("Shipping?", "We ship worldwide.", "General"),
                     FAQ("RETURNS", "Send it back within 30 days.", "General")>>,
     about_text |-> "",
     social |-> [DefaultSocialHandles EXCEPT
                   !["instagram"] = Some("https://instagram.com/acme")]]

DocAbout ==
    [DocBare EXCEPT
       !.about_text = "Acme has made shoes by hand in its own workshop since 1950.",
       !.policy_links = <<[type |-> "shipping_policy", url |-> "/policies/shipping"]>>,
       !.faq_urls = <<"/pages/faq">>]

DocBadProductHref == [DocRich EXCEPT !.bad_href = "product"]
DocBadHref == [DocRich EXCEPT !.bad_href = "plain"]

HomeDocs == {DocBare, DocEmpty, DocRich, DocAbout, DocBadProductHref, DocBadHref}

NoDoc == [DocBare EXCEPT !.title = "", !.bad_href = "no document"]

\* What the sub-pages hold.
ContactPageEmails == {"help@acme.com"}
PolicyPageText == "policy text"
AboutPageText == "about text"
FaqPageFaqs(faqUrl) ==
    IF faqUrl = "/pages/faq"
      THEN <<FAQ("Shipping?", "Free over 50 dollars.", "FAQ Page"),
             FAQ("Returns?", "Within 30 days of delivery.", "FAQ Page"),
             FAQ("Hi?", "Hello there, welcome.", "FAQ Page"),
             FAQ("Payment?", "Cards and transfers.", "FAQ Page"),
             FAQ("Sizing?", "See the size guide.", "FAQ Page"),
             FAQ("Warranty?", "Two years on all shoes.", "FAQ Page"),
             FAQ("Tracking?", "By e-mail after dispatch.", "FAQ Page"),
             FAQ("Contact?", "Use the contact form.", "FAQ Page"),
             FAQ("Careers?", "See the careers page.", "FAQ Page")>>
      ELSE <<FAQ("Returns?", "Within 14 days of delivery.", "FAQ Page"),
             FAQ("Repairs?", "Ask the workshop for a quote.", "FAQ Page")>>

\* What one page fetch does.
\*   "ok"                : the page is fetched and parsed
\*   "request_exception" : session.get or raise_for_status raises a requests
\*                         RequestException
\*   "other_exception"   : session.get or the parser raises an exception
\*                         that is no RequestException
PageOutcomes == {"ok", "request_exception", "other_exception"}

\* scraper.py lines 70-78: only RequestException is caught
GetPageContentRaises(outcome) == outcome = "other_exception"
GetPageContentIsNone_Never(outcome) == FALSE

GetPageContentIsNone(outcome) == outcome = "request_exception"

MsgNoContent == "Could not fetch website content"
MsgOther == "exception raised by the fetch"
MsgTypeError == "argument of type 'int' is not iterable"
MsgAttributeError == "'str' object has no attribute 'get'"
MsgValueError == "Invalid IPv6 URL"

\* lines 550-564: the record of a completed extraction
BrandInsights(u, l) ==
    [brand_name |-> l.brand_name,
     website_url |-> u,
     product_catalog |-> l.product_catalog,
     hero_products |-> l.hero_products,
     contact_details |-> l.contact_details,
     social_handles |-> l.social_handles,
     policies |-> l.policies,
     faqs |-> l.faqs,
     brand_context |-> l.brand_context,
     important_links |-> l.important_links,
     total_products |-> Len(l.product_catalog),
     extraction_success |-> TRUE,
     errors |-> <<>>]

\* lines 568-577: the record the except clause returns; the fields it does
\* not pass take the defaults of BrandInsights (models/schemas.py)
FailureInsights_KeepPartial(u, msg) ==
    [brand_name |-> "Unknown",
     website_url |-> u,
     product_catalog |-> locals.product_catalog,
     hero_products |-> <<>>,
     contact_details |-> DefaultContactDetails,
     social_handles |-> DefaultSocialHandles,
     policies |-> DefaultPolicyInfo,
     faqs |-> <<>>,
     brand_context |-> None,
     important_links |-> DefaultImportantLinks,
     total_products |-> Len(locals.product_catalog),
     extraction_success |-> FALSE,
     errors |-> <<msg>>]

FailureInsights(u, msg) ==
    [brand_name |-> "Unknown",
     website_url |-> u,
     product_catalog |-> <<>>,
     hero_products |-> <<>>,
     contact_details |-> DefaultContactDetails,
     social_handles |-> DefaultSocialHandles,
     policies |-> DefaultPolicyInfo,
     faqs |-> <<>>,
     brand_context |-> None,
     important_links |-> DefaultImportantLinks,
     total_products |-> 0,
     extraction_success |-> FALSE,
     errors |-> <<msg>>]

NoException == [step |-> "", msg |-> ""]
NoResult == [returned |-> FALSE]

\* lines 566-577: an exception raised at `step` inside the try block, with
\* message msg, the local url being u
ExceptHandler_Reraise(step, msg, u) ==
    /\ ex_raised' = [step |-> step, msg |-> msg]
    /\ ex_result' = ex_result
    /\ ex_pc' = "escaped"

ExceptHandler(step, msg, u) ==
    /\ ex_raised' = [step |-> step, msg |-> msg]
    /\ ex_result' = FailureInsights(u, msg)
    /\ ex_pc' = "returned"

\* A step that ends without an exception and goes on to `next`.
Proceed(next) ==
    /\ ex_pc' = next
    /\ UNCHANGED <<ex_result, ex_raised>>

InitialLocals ==
    [soup |-> NoDoc,
     brand_name |-> "",
     product_catalog |-> <<>>,
     hero_products |-> <<>>,
     contact_details |-> DefaultContactDetails,
     social_handles |-> DefaultSocialHandles,
     policies |-> DefaultPolicyInfo,
     faqs |-> <<>>,
     brand_context |-> None,
     important_links |-> DefaultImportantLinks]

\* A page request, and how it ended.
PageRequest(target, outcome) ==
    [kind |-> "page", target |-> target, outcome |-> outcome]

\* scraper.py lines 47-68: a second GET when str(soup) is empty; every
\* exception is caught, and the answer only decides a log line
IsShopifyStoreRequests(doc, outcome) ==
    IF doc.html_empty THEN <<PageRequest("home", outcome)>> ELSE <<>>

\* scraper.py lines 248-251: the first label of the host, title-cased
DomainTitle(domain) ==
    CASE domain = "acme.com" -> "Acme"
      [] domain = "www.acme.com" -> "Acme"
      [] OTHER -> domain

\* scraper.py lines 231-253
GetBrandName(doc, u) ==
    IF doc.title # "" THEN doc.title
    ELSE IF doc.og_site_name # "" THEN doc.og_site_name
    ELSE IF Len(u) >= 4 THEN DomainTitle(u[4])
    ELSE "Unknown Brand"

\* lines 20-71.  Shapes of a raw product:
\*   "dict"    : a JSON object ProductModel accepts
\*   "bad"     : a JSON object ProductModel rejects (title is null): the
\*               try of lines 25-65 catches it and the product is skipped
\*   "nondict" : a JSON string: .get raises AttributeError at line 39, and
\*               again at line 68 inside the except clause, which no
\*               handler of this function catches
ExtractProductsRaises(raws) == \E i \in DOMAIN raws : raws[i].shape = "nondict"

SkipBad(raws) == SelectSeq(raws, LAMBDA r : r.shape = "dict")

ExtractProductsFromJson(raws) ==
    [i \in DOMAIN SkipBad(raws) |-> CatalogProduct(SkipBad(raws)[i])]

\* scraper.py lines 191-192 and 221-222, data_extractor.py lines 95-96:
\* urljoin raises ValueError on the href
UrljoinRaisesOnProductLink(doc) == doc.bad_href = "product"
UrljoinRaisesOnLink(doc) == doc.bad_href \in {"product", "plain"}

\* lines 73-107
ExtractHeroProducts_NoScanLimit(doc, catalog) ==
    Take(SelectSeq(catalog, LAMBDA p : p.url \in doc.product_links), 6)

ExtractHeroProducts(doc, catalog) ==
    Take(SelectSeq(Take(catalog, 10), LAMBDA p : p.url \in doc.product_links), 6)

\* lines 109-129, the contact page answering `outcome`
ContactPageUrl(doc) == doc.links["contact_us"]

ContactRequests(doc, outcome) ==
    IF TruthyStr(ContactPageUrl(doc))
      THEN <<PageRequest(ContactPageUrl(doc)[1], outcome)>> ELSE <<>>

ExtractContactRaises(doc, outcome) ==
    \/ UrljoinRaisesOnLink(doc)
    \/ TruthyStr(ContactPageUrl(doc)) /\ GetPageContentRaises(outcome)

ExtractContactDetails(doc, outcome) ==
    [emails |-> IF TruthyStr(ContactPageUrl(doc)) /\ outcome = "ok"
                  THEN doc.emails \cup ContactPageEmails ELSE doc.emails,
     phone_numbers |-> {},
     address |-> None,
     contact_page_url |-> ContactPageUrl(doc)]

\* lines 131-143
ExtractSocialHandles(doc) == doc.social

\* lines 151-168: the loop over the policy links from the i-th on, the
\* i-th policy page answering outcomes[i]
RECURSIVE PolicyLoop(_, _, _, _)
PolicyLoop(links, outcomes, i, acc) ==
    IF i > Len(links) THEN acc
    ELSE LET asked == [acc EXCEPT !.fetched =
                         Append(@, PageRequest(links[i].url, outcomes[i]))]
         IN  IF GetPageContentRaises(outcomes[i])
               THEN [asked EXCEPT !.raised = TRUE]
             ELSE IF GetPageContentIsNone(outcomes[i])
               THEN PolicyLoop(links, outcomes, i + 1, asked)
             ELSE PolicyLoop(links, outcomes, i + 1,
                    [asked EXCEPT !.value[links[i].type] = Some(PolicyPageText)])

\* lines 145-176
ExtractPolicies(doc, outcomes) ==
    IF UrljoinRaisesOnLink(doc)
      THEN [value |-> DefaultPolicyInfo, fetched |-> <<>>, raised |-> TRUE]
      ELSE PolicyLoop(doc.policy_links, outcomes, 1,
             [value |-> DefaultPolicyInfo, fetched |-> <<>>, raised |-> FALSE])

\* line 446: lower case, punctuation removed
NormalizeQuestion(q) ==
    CASE q = "Shipping?" -> "shipping"
      [] q = "RETURNS" -> "returns"
      [] q = "Returns?" -> "returns"
      [] q = "Hi?" -> "hi"
      [] q = "Payment?" -> "payment"
      [] q = "Sizing?" -> "sizing"
      [] q = "Warranty?" -> "warranty"
      [] q = "Tracking?" -> "tracking"
      [] q = "Contact?" -> "contact"
      [] q = "Careers?" -> "careers"
      [] q = "Repairs?" -> "repairs"
      [] q = "SHIPPING!" -> "shipping"
      [] q = "shipping." -> "shipping"
      [] q = "Ok?" -> "ok"
      [] q = "Gift cards?" -> "gift cards"
      [] q = "Wholesale?" -> "wholesale"
      [] q = "Stores?" -> "stores"
      [] OTHER -> q

\* lines 439-452
RECURSIVE RemoveDuplicateFaqs_KeepLast(_, _)
RemoveDuplicateFaqs_KeepLast(faqs, seen) ==
    IF faqs = <<>> THEN <<>>
    ELSE LET q == NormalizeQuestion(faqs[Len(faqs)].question)
             front == SubSeq(faqs, 1, Len(faqs) - 1)
         IN  IF q \notin seen /\ Len(q) > 5
               THEN RemoveDuplicateFaqs_KeepLast(front, seen \cup {q})
                      \o <<faqs[Len(faqs)]>>
               ELSE RemoveDuplicateFaqs_KeepLast(front, seen)

RECURSIVE RemoveDuplicateFaqs(_, _)
RemoveDuplicateFaqs(faqs, seen) ==
    IF faqs = <<>> THEN <<>>
    ELSE LET q == NormalizeQuestion(faqs[1].question)
         IN  IF q \notin seen /\ Len(q) > 5
               THEN <<faqs[1]>> \o RemoveDuplicateFaqs(Tail(faqs), seen \cup {q})
               ELSE RemoveDuplicateFaqs(Tail(faqs), seen)

\* lines 222-229: the loop over faq_urls[:3] from the i-th on
RECURSIVE FaqLoop(_, _, _, _)
FaqLoop(urls, outcomes, i, acc) ==
    IF i > Len(urls) THEN acc
    ELSE LET asked == [acc EXCEPT !.fetched =
                         Append(@, PageRequest(urls[i], outcomes[i]))]
             found == [asked EXCEPT !.value = @ \o FaqPageFaqs(urls[i])]
         IN  IF GetPageContentRaises(outcomes[i])
               THEN [asked EXCEPT !.raised = TRUE]
             ELSE IF GetPageContentIsNone(outcomes[i])
               THEN FaqLoop(urls, outcomes, i + 1, asked)
             ELSE IF Len(found.value) >= 10
               THEN found
             ELSE FaqLoop(urls, outcomes, i + 1, found)

\* lines 178-235
ExtractFaqs(doc, outcomes) ==
    LET looped == FaqLoop(Take(doc.faq_urls, 3), outcomes, 1,
                    [value |-> doc.home_faqs, fetched |-> <<>>, raised |-> FALSE])
    IN  [looped EXCEPT !.value = Take(RemoveDuplicateFaqs(@, {}), 10)]

\* lines 454-488, the about page answering `outcome`
AboutUrl(doc) == doc.links["about_us"]

AsksAboutPage(doc) == doc.about_text = "" /\ TruthyStr(AboutUrl(doc))

ContextRequests(doc, outcome) ==
    IF AsksAboutPage(doc)
      THEN <<PageRequest(AboutUrl(doc)[1], outcome)>> ELSE <<>>

ExtractContextRaises(doc, outcome) ==
    doc.about_text = "" /\
      (UrljoinRaisesOnLink(doc) \/
       (TruthyStr(AboutUrl(doc)) /\ GetPageContentRaises(outcome)))

ExtractBrandContext(doc, outcome) ==
    IF doc.about_text # "" THEN Some(doc.about_text)
    ELSE IF TruthyStr(AboutUrl(doc)) /\ outcome = "ok" THEN Some(AboutPageText)
    ELSE Some("Brand context not found")

\* lines 490-501
ExtractImportantLinks(doc) == doc.links

\* The URL strings the call is made with: a bare host, a full URL with
\* trailing slashes, the empty string.
ExUrls ==
    {<<"acme.com">>,
     <<"http:", "/", "/", "www.acme.com", "/", "/">>,
     <<>>}

\* What the product listing answers during an extraction.
ExResponses ==
    {JsonResponse("request_exception", JsonNone),
     JsonResponse("json", JsonScalar),
     JsonResponse("json", JsonObject(TRUE, <<>>)),
     JsonResponse("json", JsonObject(TRUE,
        ProductList(2, RawProduct("p1", "dict"), RawProduct("p2", "dict")))),
     JsonResponse("json", JsonObject(TRUE,
        ProductList(2, RawProduct("p1", "dict"), RawProduct("p3", "bad")))),
     JsonResponse("json", JsonObject(TRUE,
        ProductList(2, RawProduct("p1", "dict"), RawProduct("p4", "nondict")))),
     JsonResponse("json", JsonObject(TRUE,
        ProductList(PageLimit, RawProduct("p1", "dict"), RawProduct("p2", "dict"))))}

\* line 521
EX_NormalizeUrl ==
    /\ ex_pc = "call"
    /\ url' = NormalizeUrl(url)
    /\ Proceed("fetch")
    /\ UNCHANGED <<locals, sim_vars, fn_vars, rt_vars, cc_vars, pg_vars>>

\* lines 524-526
EX_FetchHomepage ==
    /\ ex_pc = "fetch"
    /\ \E outcome \in PageOutcomes, doc \in HomeDocs :
         /\ requests' = Append(requests, PageRequest("home", outcome))
         /\ IF GetPageContentRaises(outcome)
              THEN ExceptHandler("fetch", MsgOther, url) /\ UNCHANGED locals
            ELSE IF GetPageContentIsNone(outcome)
              THEN ExceptHandler("fetch", MsgNoContent, url) /\ UNCHANGED locals
            ELSE /\ locals' = [locals EXCEPT !.soup = doc]
                 /\ Proceed("identify")
    /\ UNCHANGED <<url, sim_vars, fn_vars, rt_vars, cc_vars, pg_pc, page, all_products, pg_bodies>>

\* lines 529-530
EX_IsShopify ==
    /\ ex_pc = "identify"
    /\ \E outcome \in PageOutcomes :
         requests' = requests \o IsShopifyStoreRequests(locals.soup, outcome)
    /\ Proceed("brand")
    /\ UNCHANGED <<url, locals, sim_vars, fn_vars, rt_vars, cc_vars, pg_pc, page, all_products, pg_bodies>>

\* line 533
EX_BrandName ==
    /\ ex_pc = "brand"
    /\ locals' = [locals EXCEPT !.brand_name = GetBrandName(locals.soup, url)]
    /\ Proceed("products")
    /\ UNCHANGED <<url, sim_vars, fn_vars, rt_vars, cc_vars, pg_vars>>

\* line 536: one iteration of the loop of get_all_products_paginated
EX_ProductsPage ==
    /\ ex_pc = "products"
    /\ \E response \in ExResponses :
         /\ PaginateIteration(response)
         /\ IF StopTestRaises(GetJsonContent(response))
              THEN ExceptHandler("products", MsgTypeError, url)
              ELSE Proceed("products")
    /\ UNCHANGED <<url, locals, sim_vars, fn_vars, rt_vars, cc_vars, cc_vars>>

\* line 537
EX_Normalise ==
    /\ ex_pc = "products"
    /\ pg_pc = "done"
    /\ IF ExtractProductsRaises(all_products)
         THEN ExceptHandler("normalise", MsgAttributeError, url) /\ UNCHANGED locals
         ELSE /\ locals' = [locals EXCEPT
                    !.product_catalog = ExtractProductsFromJson(all_products)]
              /\ Proceed("hero")
    /\ UNCHANGED <<url, sim_vars, fn_vars, rt_vars, cc_vars, pg_vars>>

\* line 540
EX_Hero ==
    /\ ex_pc = "hero"
    /\ IF UrljoinRaisesOnProductLink(locals.soup)
         THEN ExceptHandler("hero", MsgValueError, url) /\ UNCHANGED locals
         ELSE /\ locals' = [locals EXCEPT !.hero_products =
                    ExtractHeroProducts(locals.soup, locals.product_catalog)]
              /\ Proceed("contact")
    /\ UNCHANGED <<url, sim_vars, fn_vars, rt_vars, cc_vars, pg_vars>>

\* line 543
EX_Contact ==
    /\ ex_pc = "contact"
    /\ IF UrljoinRaisesOnLink(locals.soup)
         THEN /\ ExceptHandler("contact", MsgValueError, url)
              /\ UNCHANGED <<locals, requests>>
         ELSE \E outcome \in PageOutcomes :
                /\ requests' = requests \o ContactRequests(locals.soup, outcome)
                /\ IF ExtractContactRaises(locals.soup, outcome)
                     THEN ExceptHandler("contact", MsgOther, url) /\ UNCHANGED locals
                     ELSE /\ locals' = [locals EXCEPT !.contact_details =
                                ExtractContactDetails(locals.soup, outcome)]
                          /\ Proceed("social")
    /\ UNCHANGED <<url, sim_vars, fn_vars, rt_vars, cc_vars, pg_pc, page, all_products, pg_bodies>>

\* line 544
EX_Social ==
    /\ ex_pc = "social"
    /\ locals' = [locals EXCEPT !.social_handles = ExtractSocialHandles(locals.soup)]
    /\ Proceed("policies")
    /\ UNCHANGED <<url, sim_vars, fn_vars, rt_vars, cc_vars, pg_vars>>

\* line 545
EX_Policies ==
    /\ ex_pc = "policies"
    /\ \E outcomes \in [DOMAIN locals.soup.policy_links -> PageOutcomes] :
         LET r == ExtractPolicies(locals.soup, outcomes)
         IN  /\ requests' = requests \o r.fetched
             /\ IF r.raised
                  THEN /\ ExceptHandler("policies",
                            IF UrljoinRaisesOnLink(locals.soup)
                              THEN MsgValueError ELSE MsgOther, url)
                       /\ UNCHANGED locals
                  ELSE /\ locals' = [locals EXCEPT !.policies = r.value]
                       /\ Proceed("faqs")
    /\ UNCHANGED <<url, sim_vars, fn_vars, rt_vars, cc_vars, pg_pc, page, all_products, pg_bodies>>

\* line 546
EX_Faqs ==
    /\ ex_pc = "faqs"
    /\ \E outcomes \in [DOMAIN Take(locals.soup.faq_urls, 3) -> PageOutcomes] :
         LET r == ExtractFaqs(locals.soup, outcomes)
         IN  /\ requests' = requests \o r.fetched
             /\ IF r.raised
                  THEN ExceptHandler("faqs", MsgOther, url) /\ UNCHANGED locals
                  ELSE /\ locals' = [locals EXCEPT !.faqs = r.value]
                       /\ Proceed("context")
    /\ UNCHANGED <<url, sim_vars, fn_vars, rt_vars, cc_vars, pg_pc, page, all_products, pg_bodies>>

\* line 547
EX_Context ==
    /\ ex_pc = "context"
    /\ \E outcome \in PageOutcomes :
         IF ExtractContextRaises(locals.soup, outcome)
           THEN /\ requests' =
                     IF UrljoinRaisesOnLink(locals.soup) THEN requests
                     ELSE requests \o ContextRequests(locals.soup, outcome)
                /\ ExceptHandler("context",
                     IF UrljoinRaisesOnLink(locals.soup)
                       THEN MsgValueError ELSE MsgOther, url)
                /\ UNCHANGED locals
           ELSE /\ requests' = requests \o ContextRequests(locals.soup, outcome)
                /\ locals' = [locals EXCEPT !.brand_context =
                       ExtractBrandContext(locals.soup, outcome)]
                /\ Proceed("links")
    /\ UNCHANGED <<url, sim_vars, fn_vars, rt_vars, cc_vars, pg_pc, page, all_products, pg_bodies>>

\* line 548
EX_Links ==
    /\ ex_pc = "links"
    /\ IF UrljoinRaisesOnLink(locals.soup)
         THEN ExceptHandler("links", MsgValueError, url) /\ UNCHANGED locals
         ELSE /\ locals' = [locals EXCEPT !.important_links =
                    ExtractImportantLinks(locals.soup)]
              /\ Proceed("assemble")
    /\ UNCHANGED <<url, sim_vars, fn_vars, rt_vars, cc_vars, pg_vars>>

\* lines 550-564
EX_Return ==
    /\ ex_pc = "assemble"
    /\ ex_result' = BrandInsights(url, locals)
    /\ ex_pc' = "returned"
    /\ UNCHANGED <<url, locals, ex_raised, sim_vars, fn_vars, rt_vars, cc_vars, pg_vars>>

ExNext ==
    \/ EX_NormalizeUrl
    \/ EX_FetchHomepage
    \/ EX_IsShopify
    \/ EX_BrandName
    \/ EX_ProductsPage
    \/ EX_Normalise
    \/ EX_Hero
    \/ EX_Contact
    \/ EX_Social
    \/ EX_Policies
    \/ EX_Faqs
    \/ EX_Context
    \/ EX_Links
    \/ EX_Return

ExCall ==
    /\ ex_pc = "call"
    /\ url \in ExUrls
    /\ locals = InitialLocals
    /\ ex_result = NoResult
    /\ ex_raised = NoException

ExIdle ==
    /\ ex_pc = "idle"
    /\ url = <<>>
    /\ locals = InitialLocals
    /\ ex_result = NoResult
    /\ ex_raised = NoException

(***************************************************************************)
(*                            Specifications                               *)
(***************************************************************************)

InitSimilarity == SimInit /\ PgIdle /\ ExIdle /\ FnIdle /\ RtIdle /\ CcIdle
SpecSimilarity == InitSimilarity /\ [][SimNext]_vars

InitPaginate == PgCall /\ requests = <<>> /\ SimIdle /\ ExIdle /\ FnIdle /\ RtIdle /\ CcIdle
SpecPaginate == InitPaginate /\ [][PgNext]_vars

InitExtract == ExCall /\ PgCall /\ requests = <<>> /\ SimIdle /\ FnIdle /\ RtIdle /\ CcIdle
SpecExtract == InitExtract /\ [][ExNext]_vars

(***************************************************************************)
(*                 Properties of extract_complete_insights                 *)
(***************************************************************************)

\* The fields of a BrandInsights record (models/schemas.py), extracted_at
\* left out.
C1_Fields ==
    {"brand_name", "website_url", "product_catalog", "hero_products",
     "contact_details", "social_handles", "policies", "faqs", "brand_context",
     "important_links", "total_products", "extraction_success", "errors"}

C1_IsBrandInsights(r) ==
    /\ DOMAIN r = C1_Fields
    /\ r.extraction_success \in BOOLEAN
    /\ r.total_products \in Nat
    /\ DOMAIN r.contact_details = DOMAIN DefaultContactDetails
    /\ DOMAIN r.social_handles = Platforms
    /\ DOMAIN r.policies = PolicyTypes
    /\ DOMAIN r.important_links = LinkKeys

\* C1: for every input URL string and every outcome of every fetch, the
\* call never lets an exception escape to its caller, and what it returns
\* is a BrandInsights record; an exception raised anywhere in the sequence
\* ends the call with a returned record.
C1_AlwaysReturnsRecord ==
    /\ ex_pc # "escaped"
    /\ ex_raised # NoException => ex_pc = "returned"
    /\ ex_pc = "returned" => C1_IsBrandInsights(ex_result)
    /\ ex_pc # "returned" => ex_result = NoResult

\* C1 happens: the product listing made the paginator raise, and the call
\* returned a record all the same.
C1_Witness ==
    /\ ex_pc = "returned"
    /\ ex_raised.step = "products"
    /\ C1_IsBrandInsights(ex_result)

\* C2: whenever the sequence is aborted by an exception, the homepage fetch
\* returning nothing included, the returned record has extraction_success
\* false, brand name "Unknown", an empty catalog, hero list and FAQ list,
\* total_products 0, default contact, social, policy and link fragments,
\* and an errors list holding exactly the message of that exception.
C2_FailureRecord ==
    ex_raised # NoException =>
        /\ ex_pc = "returned"
        /\ ex_result.extraction_success = FALSE
        /\ ex_result.brand_name = "Unknown"
        /\ ex_result.product_catalog = <<>>
        /\ ex_result.hero_products = <<>>
        /\ ex_result.faqs = <<>>
        /\ ex_result.total_products = 0
        /\ ex_result.contact_details = DefaultContactDetails
        /\ ex_result.social_handles = DefaultSocialHandles
        /\ ex_result.policies = DefaultPolicyInfo
        /\ ex_result.important_links = DefaultImportantLinks
        /\ ex_result.errors = <<ex_raised.msg>>
        /\ (locals.soup = NoDoc /\ requests[Len(requests)].outcome = "request_exception")
              => ex_raised.msg = MsgNoContent

\* C2 happens: the sequence was aborted after a non-empty catalog and a
\* brand name had been extracted.
C2_Witness ==
    /\ ex_pc = "returned"
    /\ ex_raised # NoException
    /\ locals.product_catalog # <<>>
    /\ locals.brand_name = "Acme"

\* C3: if the homepage fetch succeeds then, whatever the later fetches do,
\* the returned record has extraction_success true and an empty errors
\* list; only a failed homepage fetch produces an unsuccessful record.
C3_SuccessAfterHomepage ==
    ex_pc = "returned" =>
        /\ locals.soup # NoDoc => ex_result.extraction_success
        /\ locals.soup # NoDoc => ex_result.errors = <<>>
        /\ ~ex_result.extraction_success => locals.soup = NoDoc

\* The extractor steps of lines 537-548.
C4_ExtractorSteps ==
    {"normalise", "hero", "contact", "social", "policies", "faqs", "context",
     "links"}

\* C4: an exception raised inside an extractor step is caught within that
\* step: it never reaches the except clause of the call, the remaining
\* steps run, and the returned record has extraction_success true.
C4_CaughtWithinStep ==
    ex_pc = "returned" =>
        /\ ex_raised.step \notin C4_ExtractorSteps
        /\ locals.soup # NoDoc /\ pg_pc = "done" => ex_result.extraction_success

(***************************************************************************)
(*                 Properties of get_all_products_paginated                *)
(***************************************************************************)

\* The product list a page returned; empty when it returned none.
C5_PageProducts(body) ==
    IF body.kind = "object" /\ body.has_products THEN body.products ELSE <<>>

RECURSIVE C5_Concat(_)
C5_Concat(bodies) ==
    IF bodies = <<>> THEN <<>>
    ELSE C5_PageProducts(Head(bodies)) \o C5_Concat(Tail(bodies))

\* k: the last page that returned a non-empty product list (0 when none did)
C5_LastNonEmpty ==
    LET nonEmpty == {i \in DOMAIN pg_bodies : C5_PageProducts(pg_bodies[i]) # <<>>}
    IN  IF nonEmpty = {} THEN 0 ELSE CHOOSE i \in nonEmpty : \A j \in nonEmpty : j <= i

C5_SumOfLengths ==
    SeqSum([i \in 1..C5_LastNonEmpty |-> Len(C5_PageProducts(pg_bodies[i]))])

\* C5: the list get_all_products_paginated returns is the concatenation, in
\* page order, of the products of every page it fetched, nothing dropped,
\* reordered or deduplicated; its length is the sum of the lengths of pages
\* 1..k, k the last page that returned a non-empty product list.
C5_ReturnsConcatenation ==
    pg_pc = "done" =>
        /\ all_products = C5_Concat(pg_bodies)
        /\ Len(all_products) = C5_SumOfLengths

\* Three pages fetched, the same product on several pages, all kept.
C5_Witness ==
    /\ pg_pc = "done"
    /\ Len(pg_bodies) = 3
    /\ Len(all_products) = 2 * PageLimit + 1
    /\ all_products[1] = all_products[PageLimit + 1]
    /\ all_products[1] = all_products[2 * PageLimit + 1]
    /\ all_products[1] # all_products[2]

\* The product-listing requests issued so far.
C6_ProductRequests == SelectSeq(requests, LAMBDA r : r.kind = "products")

\* A page after which the claim allows no further request.
C6_IsStopPage(body) ==
    \/ body.kind # "object"
    \/ ~body.has_products
    \/ Len(body.products) < 50

C6_Log ==
    /\ Len(C6_ProductRequests) = Len(pg_bodies)
    /\ \A i \in DOMAIN C6_ProductRequests :
          C6_ProductRequests[i] = Request("products", 50, i)
    /\ \A i \in DOMAIN pg_bodies :
          i < Len(pg_bodies) => ~C6_IsStopPage(pg_bodies[i])
    /\ \A i \in DOMAIN pg_bodies :
          (i = Len(pg_bodies) /\ pg_bodies[i].kind = "object"
             /\ pg_bodies[i].has_products /\ Len(pg_bodies[i].products) = 50) =>
            (pg_pc = "loop" /\ page = i + 1)
    /\ \A i \in DOMAIN pg_bodies :
          (i = Len(pg_bodies) /\ pg_bodies[i].kind = "none") =>
            (pg_pc = "done" /\ all_products = C5_Concat(SubSeq(pg_bodies, 1, i - 1)))

\* Every step of the call is the request of the next page, issued while the
\* loop is running.
C6_Step ==
    (pg_pc' # pg_pc \/ requests' # requests \/ all_products' # all_products) =>
        /\ pg_pc = "loop"
        /\ requests' = Append(requests, Request("products", 50, Len(pg_bodies) + 1))

\* C6: the pages requested are 1, 2, 3, ... consecutively, each with page
\* size 50; after a page of exactly 50 products the call goes on to request
\* the next page; no request follows the first page that is empty, short,
\* without a product list or failed; a failed fetch ends the call with the
\* products of the earlier pages, not with an error.
C6_RequestOrder == [](C6_Log) /\ [][C6_Step]_vars

\* Two full pages, then a failed fetch: the call returned 100 products.
C6_Witness ==
    /\ pg_pc = "done"
    /\ Len(requests) = 3
    /\ requests[3] = Request("products", 50, 3)
    /\ pg_bodies[3].kind = "none"
    /\ Len(pg_bodies[1].products) = 50
    /\ Len(all_products) = 100

(***************************************************************************)
(*                    Properties of _calculate_similarity                  *)
(***************************************************************************)

\* C7: for every pair of BrandInsights the returned similarity r satisfies
\* 0 <= r <= 1 (here 0 <= r <= 1000 thousandths).
C7_ScoreInUnitInterval ==
    sim_pc = "returned" => (0 <= sim_result /\ sim_result <= 1000)

\* The statement of C8, written from the claim: the four components.
C8_Sample(brand) ==
    {brand.product_catalog[i] :
        i \in {j \in DOMAIN brand.product_catalog : j <= 50}}
C8_Labels(brand) ==
    {Lower(p.product_type) : p \in {q \in C8_Sample(brand) : q.product_type # ""}}
    \cup UNION {{Lower(p.tags[k]) : k \in DOMAIN p.tags} : p \in C8_Sample(brand)}
C8_Category(a, b) ==
    IF C8_Labels(a) = {} \/ C8_Labels(b) = {} THEN RatZero
    ELSE Rat(Cardinality(C8_Labels(a) \cap C8_Labels(b)),
             Cardinality(C8_Labels(a) \cup C8_Labels(b)))
C8_PricedSum(brand) ==
    SeqSum([i \in DOMAIN brand.product_catalog |->
              IF brand.product_catalog[i].price = None
                THEN 0 ELSE brand.product_catalog[i].price[1]])
C8_PricedCount(brand) ==
    Cardinality({i \in DOMAIN brand.product_catalog :
                   /\ brand.product_catalog[i].price # None
                   /\ brand.product_catalog[i].price[1] # 0})
\* avg_a and avg_b over the common denominator C8_PricedCount(a) * C8_PricedCount(b)
C8_AvgNum(a, b) == C8_PricedSum(a) * C8_PricedCount(b)
C8_MaxAvgNum(a, b) == Max(C8_AvgNum(a, b), C8_AvgNum(b, a))
C8_PriceApplies(a, b) == C8_PricedCount(a) > 0 /\ C8_PricedCount(b) > 0
\* the quotient of the price component exists
C8_Defined(a, b) == C8_PriceApplies(a, b) => C8_MaxAvgNum(a, b) # 0
C8_Price(a, b) ==
    IF ~C8_PriceApplies(a, b) THEN RatZero
    ELSE LET d == Abs(C8_AvgNum(a, b) - C8_AvgNum(b, a))
             v == Rat(C8_MaxAvgNum(a, b) - d, C8_MaxAvgNum(a, b))
         IN  IF v[1] < 0 THEN RatZero ELSE v
C8_Size(a, b) ==
    IF Len(a.product_catalog) = 0 \/ Len(b.product_catalog) = 0 THEN RatZero
    ELSE Rat(Min(Len(a.product_catalog), Len(b.product_catalog)),
             Max(Len(a.product_catalog), Len(b.product_catalog)))
C8_Filled(brand) ==
    Cardinality({pl \in DOMAIN brand.social_handles :
                   brand.social_handles[pl] \notin {None, Some("")}})
C8_Social(a, b) ==
    IF C8_Filled(a) = 0 /\ C8_Filled(b) = 0 THEN RatZero
    ELSE Rat(Min(C8_Filled(a), C8_Filled(b)), Max(C8_Filled(a), C8_Filled(b)))
\* 1000 * (0.4 category + 0.3 price + 0.2 size + 0.1 social)
C8_Score1000(a, b) ==
    RatAdd(RatAdd(RatScale(400, C8_Category(a, b)), RatScale(300, C8_Price(a, b))),
           RatAdd(RatScale(200, C8_Size(a, b)), RatScale(100, C8_Social(a, b))))
\* r thousandths is x1000 / 1000 rounded to 3 decimals
C8_IsRounded(r, x1000) == 2 * Abs(x1000[1] - r * x1000[2]) <= x1000[2]

\* The example of C8: two 'shoes' products priced 50 and 60 against one
\* 'shoes' product priced 55, no social handles on either side.
C8_ExampleMain ==
    [product_catalog |-> <<Product("shoes", <<>>, Some(50)),
                           Product("shoes", <<>>, Some(60))>>,
     social_handles |-> SocialWith({})]
C8_ExampleCompetitor ==
    [product_catalog |-> <<Product("shoes", <<>>, Some(55))>>,
     social_handles |-> SocialWith({})]
C8_IsExample == main_brand = C8_ExampleMain /\ competitor = C8_ExampleCompetitor

\* C8: wherever the quotient of the price component exists, the returned
\* score is 0.4*category + 0.3*price + 0.2*size + 0.1*social rounded to 3
\* decimals, with the four components as the claim defines them and a
\* component whose precondition fails contributing 0; the example scores 0.8.
C8_ScoreIsWeightedSum ==
    (sim_pc = "returned" /\ C8_Defined(main_brand, competitor)) =>
        /\ C8_IsRounded(sim_result, C8_Score1000(main_brand, competitor))
        /\ C8_IsExample => sim_result = 800

C8_Witness ==
    /\ sim_pc = "returned"
    /\ C8_IsExample
    /\ sim_result = 800
    /\ sim_components.category = <<1, 1>>
    /\ sim_components.price = <<1, 1>>
    /\ sim_components.count = <<1, 2>>

\* C9: the category component and the catalog-size component computed for
\* (main, competitor) equal those computed for (competitor, main).
C9_ComponentsSymmetric ==
    sim_pc = "returned" =>
        /\ sim_components.category = CategorySimilarity(competitor, main_brand)
        /\ ~sim_error => sim_components.count = CountRatio(competitor, main_brand)

C9_Witness ==
    /\ sim_pc = "returned"
    /\ ~sim_error
    /\ CategoriesOf(main_brand) # CategoriesOf(competitor)
    /\ Cardinality(CategoriesOf(main_brand)) # Cardinality(CategoriesOf(competitor))
    /\ sim_components.category \notin {<<0, 1>>, <<1, 1>>}
    /\ sim_components.count \notin {<<0, 1>>, <<1, 1>>}
    /\ Len(main_brand.product_catalog) > SampleLimit

\* C10: when a step of the computation raises (the division by
\* max(main_avg, competitor_avg) = 0), the call returns 0.0 whatever was
\* accumulated before, and no exception reaches the caller.
C10_ErrorYieldsZero ==
    /\ sim_pc # "escaped"
    /\ (sim_pc = "returned" /\ C8_PriceApplies(main_brand, competitor)
          /\ C8_MaxAvgNum(main_brand, competitor) = 0) =>
         (sim_error /\ sim_result = 0)

C10_Witness ==
    /\ sim_pc = "returned"
    /\ sim_error
    /\ sim_result = 0
    /\ sim_components.category[1] > 0
(***************************************************************************)
(*                  DataExtractor.extract_hero_products                    *)
(***************************************************************************)

\* Longest catalog a single call of extract_hero_products is given.
MaxCatalog == 12

\* The catalog of n products p1 .. pn, each with its own url.
CatalogOf(n) ==
    [i \in 1..n |-> CatalogProduct(RawProduct("p" \o ToString(i), "dict"))]

\* The product hyperlinks of the homepage: none, every product, the first
\* seven, the eleventh on, a scattered few, and a product the catalog lacks.
HeroLinkSets ==
    {{},
     {"/products/p" \o ToString(i) : i \in 1..(MaxCatalog + 1)},
     {"/products/p" \o ToString(i) : i \in 1..7},
     {"/products/p" \o ToString(i) : i \in 11..(MaxCatalog + 1)},
     {"/products/p2", "/products/p9", "/products/p10", "/products/p11"},
     {"/products/p3", "/products/zz"}}

HeroDocs ==
    {[DocBare EXCEPT !.product_links = links] : links \in HeroLinkSets}
      \cup {DocBadProductHref}

HeroCall ==
    /\ fn_pc = "call"
    /\ fn_args \in [soup : HeroDocs, all_products : {CatalogOf(n) : n \in 0..MaxCatalog}]
    /\ fn_result = <<>>

\* lines 73-107
Call_ExtractHeroProducts ==
    /\ fn_pc = "call"
    /\ IF UrljoinRaisesOnProductLink(fn_args.soup)
         THEN fn_pc' = "raised" /\ fn_result' = fn_result
         ELSE /\ fn_result' = ExtractHeroProducts(fn_args.soup, fn_args.all_products)
              /\ fn_pc' = "returned"
    /\ UNCHANGED <<fn_args, sim_vars, pg_vars, ex_vars, rt_vars, cc_vars>>

HeroNext == Call_ExtractHeroProducts

InitHero == HeroCall /\ SimIdle /\ PgIdle /\ ExIdle /\ RtIdle /\ CcIdle
SpecHero == InitHero /\ [][HeroNext]_vars

\* Where a product stands in the catalog given to the call.
C11_Index(p) ==
    CHOOSE i \in DOMAIN fn_args.all_products : fn_args.all_products[i] = p

\* C11: extract_hero_products returns at most 6 products, each one of the
\* first 10 entries of the given catalog with its url among the product
\* links of the homepage, in catalog order; a product at index 10 or later
\* (counting from 0) and a product not in the catalog are never returned.
C11_HeroFromFirstTen ==
    fn_pc = "returned" =>
        /\ Len(fn_result) <= 6
        /\ \A k \in DOMAIN fn_result :
              /\ fn_result[k] \in Range(fn_args.all_products)
              /\ C11_Index(fn_result[k]) <= 10
              /\ fn_result[k].url \in fn_args.soup.product_links
        /\ \A k, l \in DOMAIN fn_result :
              k < l => C11_Index(fn_result[k]) < C11_Index(fn_result[l])

\* C11 happens: more than ten catalog products are linked from the homepage
\* and the call returned six of them.
C11_Witness ==
    /\ fn_pc = "returned"
    /\ Len(fn_args.all_products) > 10
    /\ Cardinality({i \in DOMAIN fn_args.all_products :
          fn_args.all_products[i].url \in fn_args.soup.product_links}) > 10
    /\ Len(fn_result) = 6

(***************************************************************************)
(*                       DataExtractor.extract_faqs                        *)
(***************************************************************************)

\* Most FAQ links the homepage of a single call of extract_faqs holds.
MaxFaqUrls == 4

\* FAQ sections of the homepage: none; two questions; five questions, one
\* of them too short and one asked on the FAQ page as well; one question
\* asked three times; ten questions.
FaqHomeLists ==
    {<<>>,
     [i \in 1..10 |-> FAQ("question " \o ToString(i), "The answer to it.", "General")],
     <<FAQ("Shipping?", "We ship worldwide.", "General"),
       FAQ("RETURNS", "Send it back within 30 days.", "General")>>,
     <<FAQ("Gift cards?", "Yes, in the shop.", "General"),
       FAQ("Ok?", "It is all right.", "General"),
       FAQ("Wholesale?", "Write to the sales team.", "General"),
       FAQ("Stores?", "One, next to the workshop.", "General"),
       FAQ("Payment?", "Cash on delivery only.", "General")>>,
     <<FAQ("SHIPPING!", "The first answer.", "General"),
       FAQ("shipping.", "The second answer.", "General"),
       FAQ("Shipping?", "The third answer.", "General")>>}

\* FAQ links of the homepage, in document order.
FaqUrlLists ==
    {Take(urls, n) :
       urls \in {<<"/pages/faq", "/pages/help", "/pages/support", "/pages/questions">>,
                 <<"/pages/help", "/pages/support", "/pages/questions", "/pages/faq">>},
       n \in 0..MaxFaqUrls}

FaqDocs ==
    {[DocBare EXCEPT !.home_faqs = home, !.faq_urls = urls] :
       home \in FaqHomeLists, urls \in FaqUrlLists}

FaqsCall ==
    /\ fn_pc = "call"
    /\ fn_args \in [soup : FaqDocs]
    /\ fn_result = <<>>

\* lines 178-235, the FAQ pages answering `outcomes`
Call_ExtractFaqs ==
    /\ fn_pc = "call"
    /\ \E outcomes \in [DOMAIN Take(fn_args.soup.faq_urls, 3) -> PageOutcomes] :
         LET r == ExtractFaqs(fn_args.soup, outcomes)
         IN  /\ fn_result' = r
             /\ fn_pc' = IF r.raised THEN "raised" ELSE "returned"
    /\ UNCHANGED <<fn_args, sim_vars, pg_vars, ex_vars, rt_vars, cc_vars>>

FaqsNext == Call_ExtractFaqs

InitFaqs == FaqsCall /\ SimIdle /\ PgIdle /\ ExIdle /\ RtIdle /\ CcIdle
SpecFaqs == InitFaqs /\ [][FaqsNext]_vars

\* The candidates in the order they were found: those of the homepage,
\* then those of every FAQ page that was fetched.
RECURSIVE C12_PageCandidates(_)
C12_PageCandidates(log) ==
    IF log = <<>> THEN <<>>
    ELSE (IF log[1].outcome = "ok" THEN FaqPageFaqs(log[1].target) ELSE <<>>)
           \o C12_PageCandidates(Tail(log))

C12_Candidates == fn_args.soup.home_faqs \o C12_PageCandidates(fn_result.fetched)

\* The first candidate with the normalized question of f.
C12_FirstLike(f) ==
    C12_Candidates[
      CHOOSE i \in DOMAIN C12_Candidates :
        /\ NormalizeQuestion(C12_Candidates[i].question) = NormalizeQuestion(f.question)
        /\ \A j \in 1..(i - 1) :
              NormalizeQuestion(C12_Candidates[j].question) # NormalizeQuestion(f.question)]

\* C12: extract_faqs returns at most 10 entries, no two of them with the
\* same normalized question, each with a normalized question of more than 5
\* characters; of the candidates sharing a normalized question the one
\* found first, homepage candidates before sub-page candidates, is kept.
C12_UniqueFirstFound ==
    fn_pc = "returned" =>
        /\ Len(fn_result.value) <= 10
        /\ \A k, l \in DOMAIN fn_result.value :
              k # l => NormalizeQuestion(fn_result.value[k].question)
                         # NormalizeQuestion(fn_result.value[l].question)
        /\ \A k \in DOMAIN fn_result.value :
              /\ Len(NormalizeQuestion(fn_result.value[k].question)) > 5
              /\ fn_result.value[k] \in Range(C12_Candidates)
              /\ fn_result.value[k] = C12_FirstLike(fn_result.value[k])

\* C12 happens: more than ten distinct questions were found, one of them
\* both on the homepage and on a FAQ page, and ten entries were returned.
C12_Witness ==
    /\ fn_pc = "returned"
    /\ Len(fn_result.value) = 10
    /\ Cardinality({NormalizeQuestion(f.question) : f \in Range(C12_Candidates)}) > 11
    /\ \E i \in DOMAIN fn_args.soup.home_faqs, j \in DOMAIN C12_Candidates :
          /\ j > Len(fn_args.soup.home_faqs)
          /\ NormalizeQuestion(C12_Candidates[j].question)
                = NormalizeQuestion(fn_args.soup.home_faqs[i].question)
          /\ C12_Candidates[j] # fn_args.soup.home_faqs[i]
          /\ fn_args.soup.home_faqs[i] \in Range(fn_result.value)

(***************************************************************************)
(*        The FAQ strategies: what becomes of a question/answer pair       *)
(*   extract_faqs (FAQ sections of the page), _extract_accordion_faqs,     *)
(*   _extract_structured_faqs, _extract_list_faqs, _extract_toggle_faqs    *)
(***************************************************************************)

\* Most question/answer pairs a single call of a strategy comes across.
MaxCandidates == 2

\* len(answer_text) > 10 (lines 210, 337, 363, 390, 430)
AnswerMin == 10
\* answer_text[:500] (lines 213, 340, 366, 393, 433)
AnswerCut == 500
\* question_text[:200] (lines 339, 365, 392, 432)
QuestionCut == 200
\* len(question_clean) > 5 (line 363)
QuestionMin == 5

\* A text of n characters; texts are sequences of characters.
Text(n) == [i \in 1..n |-> "x"]

\* '?' in question_text
HasQuestionMark(q) == \E i \in DOMAIN q : q[i] = "?"

Strategies == {"sections", "accordion", "structured", "list", "toggle"}

\* A pair a strategy comes across: the stripped text of the question
\* element, whether an answer element was found for it, and the
\* whitespace-normalised text of the answer (_clean_html, lines 503-515).
Candidate(question, hasAnswer, answer) ==
    [question |-> question, has_answer |-> hasAnswer, answer |-> answer]

\* The guard on the answer.
AnswerLongEnough(answer) == Len(answer) > AnswerMin

\* The conditions under which a strategy appends a FAQ for the pair:
\* lines 208-210, 335-337, 363, 390, 428-430.
StrategyAccepts(strategy, cand) ==
    CASE strategy = "sections" ->
           cand.has_answer /\ cand.question # <<>> /\ AnswerLongEnough(cand.answer)
      [] strategy = "accordion" ->
           /\ cand.has_answer /\ cand.question # <<>>
           /\ HasQuestionMark(cand.question)
           /\ AnswerLongEnough(cand.answer)
      [] strategy = "structured" ->
           Len(cand.question) > QuestionMin /\ AnswerLongEnough(cand.answer)
      [] strategy = "list" ->
           HasQuestionMark(cand.question) /\ AnswerLongEnough(cand.answer)
      [] strategy = "toggle" ->
           /\ cand.has_answer
           /\ HasQuestionMark(cand.question)
           /\ AnswerLongEnough(cand.answer)

StrategyCategory(strategy) ==
    CASE strategy = "sections" -> "General"
      [] strategy = "accordion" -> "FAQ Page"
      [] strategy = "structured" -> "Structured FAQ"
      [] strategy = "list" -> "List FAQ"
      [] strategy = "toggle" -> "Toggle FAQ"

\* The FAQ a strategy appends: lines 211-215, 338-342, 364-368, 391-395,
\* 431-435.
StrategyFaq(strategy, cand) ==
    FAQ(IF strategy = "sections" THEN cand.question
          ELSE Take(cand.question, QuestionCut),
        Take(cand.answer, AnswerCut),
        StrategyCategory(strategy))

\* The FAQs a strategy returns for the pairs it comes across, in order.
RECURSIVE StrategyFaqs(_, _)
StrategyFaqs(strategy, cands) ==
    IF cands = <<>> THEN <<>>
    ELSE (IF StrategyAccepts(strategy, cands[1])
            THEN <<StrategyFaq(strategy, cands[1])>> ELSE <<>>)
           \o StrategyFaqs(strategy, Tail(cands))

QuestionShipping == <<"S", "h", "i", "p", "p", "i", "n", "g", "?">>
QuestionLong == Text(QuestionCut) \o <<"?">>
QuestionNoMark == <<"R", "e", "t", "u", "r", "n", "s">>
QuestionShort == <<"O", "k", "?">>

AnswerLens == {AnswerMin - 1, AnswerMin, AnswerMin + 1, AnswerCut, AnswerCut + 1}

Candidates ==
    {Candidate(q, TRUE, Text(n)) :
       q \in {QuestionShipping, QuestionLong}, n \in AnswerLens}
      \cup {Candidate(QuestionNoMark, TRUE, Text(AnswerMin + 1)),
            Candidate(QuestionShort, TRUE, Text(AnswerMin + 1)),
            Candidate(<<>>, TRUE, Text(AnswerMin + 1)),
            Candidate(QuestionShipping, FALSE, Text(AnswerMin + 1))}

CandidateLists ==
    UNION {[1..n -> Candidates] : n \in 0..MaxCandidates}

StrategyCall ==
    /\ fn_pc = "call"
    /\ fn_args \in [strategy : Strategies, candidates : CandidateLists]
    /\ fn_result = <<>>

Call_FaqStrategy ==
    /\ fn_pc = "call"
    /\ fn_result' = StrategyFaqs(fn_args.strategy, fn_args.candidates)
    /\ fn_pc' = "returned"
    /\ UNCHANGED <<fn_args, sim_vars, pg_vars, ex_vars, rt_vars, cc_vars>>

StrategyNext == Call_FaqStrategy

InitStrategy == StrategyCall /\ SimIdle /\ PgIdle /\ ExIdle /\ RtIdle /\ CcIdle
SpecStrategy == InitStrategy /\ [][StrategyNext]_vars

\* A pair that no condition other than the guard on the answer rejects.
C13_PassesOtherTests(cand) ==
    /\ cand.has_answer
    /\ HasQuestionMark(cand.question)
    /\ Len(cand.question) > 5

\* C13: in every strategy a pair is rejected by the answer-length guard if
\* and only if its whitespace-normalised answer has fewer than 10
\* characters; no returned answer is shorter than 10 characters and every
\* returned answer is at most 500 characters long.
C13_GuardThresholdTen ==
    fn_pc = "returned" =>
        /\ \A k \in DOMAIN fn_result :
              Len(fn_result[k].answer) >= 10 /\ Len(fn_result[k].answer) <= 500
        /\ (\A i \in DOMAIN fn_args.candidates :
                C13_PassesOtherTests(fn_args.candidates[i]))
             => Len(fn_result) =
                  Cardinality({i \in DOMAIN fn_args.candidates :
                                 Len(fn_args.candidates[i].answer) >= 10})

(***************************************************************************)
(*                    WebScraper.extract_social_links                      *)
(***************************************************************************)

\* Most hyperlinks of the page given to a single call of a link extractor.
MaxLinks == 3

\* A hyperlink <a href=...>text</a>.
Anchor(href, text) == [href |-> href, text |-> text]

\* lines 122-130, 138-140: the platforms one of whose patterns is found in
\* the href, case ignored
SocialPlatformsOf(href) ==
    CASE href = "https://instagram.com/acme" -> {"instagram"}
      [] href = "https://INSTAGR.AM/other" -> {"instagram"}
      [] href = "https://x.com/acme" -> {"twitter"}
      [] href = "https://twitter.com/old" -> {"twitter"}
      [] href = "https://www.facebook.com/sharer.php?u=https://instagram.com/acme"
           -> {"instagram", "facebook"}
      [] OTHER -> {}

\* lines 135-143: the loop over the hyperlinks, in document order
RECURSIVE SocialLinksLoop(_, _)
SocialLinksLoop(links, social_handles) ==
    IF links = <<>> THEN social_handles
    ELSE SocialLinksLoop(Tail(links),
           [pl \in Platforms |->
              IF pl \in SocialPlatformsOf(links[1].href)
                THEN Some(links[1].href) ELSE social_handles[pl]])

\* scraper.py lines 117-145, read as data_extractor.py lines 133-143 read
\* it: social_links.get(platform) for each of the seven platforms
ExtractSocialLinks(links) == SocialLinksLoop(links, [pl \in Platforms |-> None])

SocialAnchors ==
    {Anchor("https://instagram.com/acme", "Instagram"),
     Anchor("https://INSTAGR.AM/other", "Follow us"),
     Anchor("https://x.com/acme", ""),
     Anchor("https://twitter.com/old", "Twitter"),
     Anchor("https://www.facebook.com/sharer.php?u=https://instagram.com/acme", "Share"),
     Anchor("/pages/contact", "Contact")}

SocialLinksCall ==
    /\ fn_pc = "call"
    /\ fn_args \in [links : UNION {[1..n -> SocialAnchors] : n \in 0..MaxLinks}]
    /\ fn_result = <<>>

Call_ExtractSocialLinks ==
    /\ fn_pc = "call"
    /\ fn_result' = ExtractSocialLinks(fn_args.links)
    /\ fn_pc' = "returned"
    /\ UNCHANGED <<fn_args, sim_vars, pg_vars, ex_vars, rt_vars, cc_vars>>

SocialLinksNext == Call_ExtractSocialLinks

InitSocialLinks == SocialLinksCall /\ SimIdle /\ PgIdle /\ ExIdle /\ RtIdle /\ CcIdle
SpecSocialLinks == InitSocialLinks /\ [][SocialLinksNext]_vars

\* The hyperlinks of the call that match the platform, by position.
C14_Matches(pl) ==
    {i \in DOMAIN fn_args.links : pl \in SocialPlatformsOf(fn_args.links[i].href)}

\* C14: extract_social_links yields at most one URL for each of the seven
\* platforms, and the URL of a platform is that of the first hyperlink, in
\* document order, that matches it: a later match never replaces it.
C14_FirstMatchWins ==
    fn_pc = "returned" =>
        /\ DOMAIN fn_result = Platforms
        /\ Cardinality(Platforms) = 7
        /\ \A pl \in Platforms :
              /\ Len(fn_result[pl]) <= 1
              /\ C14_Matches(pl) = {} => fn_result[pl] = None
              /\ C14_Matches(pl) # {} =>
                    fn_result[pl] =
                      Some(fn_args.links[CHOOSE i \in C14_Matches(pl) :
                             \A j \in C14_Matches(pl) : i <= j].href)

(***************************************************************************)
(*                   WebScraper.extract_important_links                    *)
(***************************************************************************)

\* href.startswith('/') (scraper.py line 221)
StartsWithSlash(href) ==
    href \in {"/pages/contact", "/pages/contact-sales", "/blogs/news",
              "/blogs/journal", "/pages/faq", "//[x"}

\* urljoin(base_url, href) for an href that starts with a slash, base_url
\* being scheme and host (scraper.py line 222)
UrljoinRaises(base_url, href) == href = "//[x"
Urljoin(base_url, href) == base_url \o href

\* lines 205-212, 224-227: the first link type, in the order of
\* link_keywords, one of whose keywords is in the lower-cased text or href
\* of the hyperlink; "" when there is none
LinkTypeOf(anchor) ==
    CASE anchor.href = "/pages/contact" -> "contact_us"
      [] anchor.href = "/pages/contact-sales" -> "contact_us"
      [] anchor.href = "//[x" -> "contact_us"
      [] anchor.href = "/blogs/news" /\ anchor.text = "About our blog" -> "about_us"
      [] anchor.href = "/blogs/news" -> "blog"
      [] anchor.href = "/blogs/journal" -> "blog"
      [] anchor.href = "https://jobs.acme.com" -> "careers"
      [] OTHER -> ""

\* lines 216-227: the loop over the hyperlinks, in document order; a result
\* of <<>> stands for the ValueError of urljoin
RECURSIVE ImportantLinksLoop(_, _, _)
ImportantLinksLoop(links, base_url, important_links) ==
    IF links = <<>> THEN important_links
    ELSE IF StartsWithSlash(links[1].href) /\ UrljoinRaises(base_url, links[1].href)
      THEN <<>>
    ELSE LET href == IF StartsWithSlash(links[1].href)
                       THEN Urljoin(base_url, links[1].href) ELSE links[1].href
         IN  ImportantLinksLoop(Tail(links), base_url,
               [k \in LinkKeys |->
                  IF k = LinkTypeOf(links[1]) THEN Some(href) ELSE important_links[k]])

\* scraper.py lines 201-229, read as data_extractor.py lines 492-501 read
\* it: links.get(key) for each of the six keys
ScraperExtractImportantLinks(links, base_url) ==
    ImportantLinksLoop(links, base_url, DefaultImportantLinks)

NavAnchors ==
    {Anchor("/pages/contact", "Contact"),
     Anchor("/pages/contact-sales", "Talk to sales"),
     Anchor("/blogs/news", "About our blog"),
     Anchor("/blogs/news", "News"),
     Anchor("/blogs/journal", "Journal"),
     Anchor("https://jobs.acme.com", "Careers"),
     Anchor("/pages/faq", "FAQ"),
     Anchor("//[x", "Contact")}

ImportantLinksCall ==
    /\ fn_pc = "call"
    /\ fn_args \in [links : UNION {[1..n -> NavAnchors] : n \in 0..MaxLinks},
                     base_url : {"https://acme.com"}]
    /\ fn_result = <<>>

Call_ExtractImportantLinks ==
    /\ fn_pc = "call"
    /\ fn_result' = ScraperExtractImportantLinks(fn_args.links, fn_args.base_url)
    /\ fn_pc' = IF fn_result' = <<>> THEN "raised" ELSE "returned"
    /\ UNCHANGED <<fn_args, sim_vars, pg_vars, ex_vars, rt_vars, cc_vars>>

ImportantLinksNext == Call_ExtractImportantLinks

InitImportantLinks == ImportantLinksCall /\ SimIdle /\ PgIdle /\ ExIdle /\ RtIdle /\ CcIdle
SpecImportantLinks == InitImportantLinks /\ [][ImportantLinksNext]_vars

\* The hyperlinks of the call that match the key, by position.
C15_Matches(k) ==
    {i \in DOMAIN fn_args.links : LinkTypeOf(fn_args.links[i]) = k}

\* The absolute form of the hyperlink at position i.
C15_Absolute(i) ==
    IF StartsWithSlash(fn_args.links[i].href)
      THEN fn_args.base_url \o fn_args.links[i].href
      ELSE fn_args.links[i].href

\* C15: extract_important_links yields at most one link for each of the six
\* keys, and the link of a key is the first hyperlink, in document order,
\* that matches it: a later match never replaces it.
C15_FirstLinkWins ==
    fn_pc = "returned" =>
        /\ DOMAIN fn_result =
              {"order_tracking", "contact_us", "blog", "size_guide", "careers",
               "about_us"}
        /\ \A k \in DOMAIN fn_result :
              /\ Len(fn_result[k]) <= 1
              /\ C15_Matches(k) = {} => fn_result[k] = None
              /\ C15_Matches(k) # {} =>
                    fn_result[k] =
                      Some(C15_Absolute(CHOOSE i \in C15_Matches(k) :
                             \A j \in C15_Matches(k) : i <= j))

(***************************************************************************)
(*       DataExtractor.extract_products_from_json: price, available        *)
(***************************************************************************)

\* Most raw products given to a single call, and most variants of one.
MaxRawProducts == 2
MaxVariants == 2

\* A variant object of products.json: price is the value of its key
\* 'price' (a string, None when the key is missing), available the value
\* of its key 'available' (None when the key is missing).
Variant(price, available) == [price |-> price, available |-> available]

\* float(s) for the price strings of the model; float raises ValueError on
\* a string that is no number
FloatRaises(s) == s = "abc"
FloatOf(s) ==
    CASE s = "19.99" -> Rat(1999, 100)
      [] s = "5.00" -> Rat(5, 1)
      [] s = "-20.00" -> Rat(-20, 1)
      [] OTHER -> RatZero

\* A product object of products.json: has_variants says whether it has the
\* key 'variants'.
ProductData(id, hasVariants, variants) ==
    [id |-> id, shape |-> "dict", has_variants |-> hasVariants,
     variants |-> variants]

\* line 39: product_data.get('variants', [])
GetVariants(product_data) ==
    IF product_data.has_variants THEN product_data.variants ELSE <<>>

\* lines 42-46: price
FirstVariantPrice_Cheapest(variants) ==
    IF variants = <<>> THEN None
    ELSE LET priced == {i \in DOMAIN variants : variants[i].price # None}
         IN  IF priced = {} THEN Some(RatZero)
             ELSE Some(FloatOf(variants[
                    CHOOSE i \in priced : \A j \in priced :
                      RatLeq(FloatOf(variants[i].price[1]),
                             FloatOf(variants[j].price[1]))].price[1]))

FirstVariantPrice(variants) ==
    IF variants = <<>> THEN None
    ELSE IF variants[1].price = None THEN Some(RatZero)
    ELSE Some(FloatOf(variants[1].price[1]))

\* lines 43-47: available
FirstVariantAvailable(variants) ==
    IF variants = <<>> THEN FALSE
    ELSE IF variants[1].available = None THEN FALSE
    ELSE variants[1].available[1]

\* line 46: float raises, the try of lines 25-65 catches it and the product
\* is skipped (lines 67-69)
ConversionRaises(product_data) ==
    /\ GetVariants(product_data) # <<>>
    /\ GetVariants(product_data)[1].price # None
    /\ FloatRaises(GetVariants(product_data)[1].price[1])

\* lines 49-64: the ProductModel, reduced to the fields the variants decide
ProductModel(product_data) ==
    [id |-> product_data.id,
     url |-> "/products/" \o product_data.id,
     price |-> FirstVariantPrice(GetVariants(product_data)),
     available |-> FirstVariantAvailable(GetVariants(product_data)),
     variants |-> GetVariants(product_data)]

\* lines 22-71
RECURSIVE ConvertProducts(_)
ConvertProducts(products_data) ==
    IF products_data = <<>> THEN <<>>
    ELSE (IF ConversionRaises(products_data[1]) THEN <<>>
            ELSE <<ProductModel(products_data[1])>>)
           \o ConvertProducts(Tail(products_data))

Variants ==
    {Variant(Some("19.99"), Some(TRUE)),
     Variant(Some("5.00"), Some(FALSE)),
     Variant(None, None)}

VariantLists == UNION {[1..n -> Variants] : n \in 0..MaxVariants}

\* The raw products at place i of the list given to the call: without the
\* key 'variants', with a list of variants, with a price that is no number.
\* The first place takes every list of variants, the later places one list
\* of each shape.
ProductDataAt(i) ==
    {ProductData("p" \o ToString(i), FALSE, <<>>)}
      \cup {ProductData("p" \o ToString(i), TRUE, vs) :
               vs \in IF i = 1 THEN VariantLists
                      ELSE {<<>>, <<Variant(Some("5.00"), Some(FALSE))>>}}
      \cup {ProductData("p" \o ToString(i), TRUE,
               <<Variant(Some("abc"), Some(TRUE)), Variant(Some("5.00"), Some(TRUE))>>)}

\* The lists of exactly n raw products.
RECURSIVE ProductDataLists(_)
ProductDataLists(n) ==
    IF n = 0 THEN {<<>>}
    ELSE {Append(l, pd) : l \in ProductDataLists(n - 1), pd \in ProductDataAt(n)}

ProductsCall ==
    /\ fn_pc = "call"
    /\ fn_args \in [products_data : UNION {ProductDataLists(n) : n \in 0..MaxRawProducts}]
    /\ fn_result = <<>>

\* lines 20-71
Call_ExtractProductsFromJson ==
    /\ fn_pc = "call"
    /\ fn_result' = ConvertProducts(fn_args.products_data)
    /\ fn_pc' = "returned"
    /\ UNCHANGED <<fn_args, sim_vars, pg_vars, ex_vars, rt_vars, cc_vars>>

ProductsNext == Call_ExtractProductsFromJson

InitProducts == ProductsCall /\ SimIdle /\ PgIdle /\ ExIdle /\ RtIdle /\ CcIdle
SpecProducts == InitProducts /\ [][ProductsNext]_vars

\* The raw product a converted product was made from.
C16_RawOf(product) ==
    CHOOSE pd \in Range(fn_args.products_data) : pd.id = product.id

\* The price a variant object states, as a number.
C16_PriceOf(variant) ==
    CASE variant.price = Some("19.99") -> <<1999, 100>>
      [] variant.price = Some("5.00") -> <<5, 1>>

RetryTotal == 3

\* status_forcelist (scraper.py line 34)
StatusForcelist == {429, 500, 502, 503, 504}

\* What one attempt meets: a response with a status, other than a
\* redirect, or a failure of the network (status 0).
Response(status) == [kind |-> "response", status |-> status]
NetworkFailure(kind) == [kind |-> kind, status |-> 0]
NetworkFailures == {NetworkFailure("connection_error"), NetworkFailure("timeout")}
Statuses == {200, 400, 403, 404, 429, 500, 502, 503, 504}
AttemptOutcomes == {Response(st) : st \in Statuses} \cup NetworkFailures

\* The bodies of a response with status 200: a document lxml parses, JSON,
\* a text that is no JSON, a document on which the parser raises.
Bodies == {"html", "json", "not_json", "parser_raises"}

FetchMethods == {"get_page_content", "get_json_content"}

\* Whether the session sends the request again after this attempt.
IsRetry(outcome) ==
    \/ outcome.kind # "response"
    \/ outcome.status \in StatusForcelist

\* What session.get and raise_for_status do once the attempts are over
\* (lines 73-74, 83-84): "response" when a response with a status below
\* 400 is at hand, "request_exception" otherwise.
SessionOutcome(last) ==
    IF last.kind = "response" /\ last.status < 400
      THEN "response" ELSE "request_exception"

\* lines 70-78 and 80-88: what the method does with the outcome of the
\* session and the body: it returns a value, None included, or raises.
FetchReturn_Reraise(method, outcome, body) ==
    IF outcome = "request_exception"
      THEN [pc |-> "raised", value |-> None]
    ELSE IF method = "get_page_content"
      THEN IF body = "parser_raises"
             THEN [pc |-> "raised", value |-> None]
             ELSE [pc |-> "returned", value |-> Some(body)]
    ELSE IF body = "json"
      THEN [pc |-> "returned", value |-> Some(body)]
      ELSE [pc |-> "returned", value |-> None]

FetchReturn(method, outcome, body) ==
    IF outcome = "request_exception"
      THEN [pc |-> "returned", value |-> None]
    ELSE IF method = "get_page_content"
      THEN IF body = "parser_raises"
             THEN [pc |-> "raised", value |-> None]
             ELSE [pc |-> "returned", value |-> Some(body)]
    ELSE IF body = "json"
      THEN [pc |-> "returned", value |-> Some(body)]
      ELSE [pc |-> "returned", value |-> None]

FetchCall ==
    /\ fn_pc = "call"
    /\ fn_args \in [method : FetchMethods]
    /\ fn_result = [attempts |-> <<>>, value |-> None]

\* An attempt after which the session sends the request again.
FetchRetry ==
    /\ fn_pc \in {"call", "retry"}
    /\ \E outcome \in AttemptOutcomes :
         /\ IsRetry(outcome)
         /\ Len(fn_result.attempts) < RetryTotal
         /\ fn_result' = [fn_result EXCEPT !.attempts = Append(@, outcome)]
         /\ fn_pc' = "retry"
    /\ UNCHANGED <<fn_args, sim_vars, pg_vars, ex_vars, rt_vars, cc_vars>>

\* The last attempt of the call, and what the method makes of it.
FetchLastAttempt ==
    /\ fn_pc \in {"call", "retry"}
    /\ \E outcome \in AttemptOutcomes, body \in Bodies :
         LET r == FetchReturn(fn_args.method, SessionOutcome(outcome), body)
         IN  /\ IsRetry(outcome) => Len(fn_result.attempts) >= RetryTotal
             /\ fn_result' = [attempts |-> Append(fn_result.attempts, outcome),
                               value |-> r.value]
             /\ fn_pc' = r.pc
    /\ UNCHANGED <<fn_args, sim_vars, pg_vars, ex_vars, rt_vars, cc_vars>>

FetchNext == FetchRetry \/ FetchLastAttempt

InitFetch == FetchCall /\ SimIdle /\ PgIdle /\ ExIdle /\ RtIdle /\ CcIdle
SpecFetch == InitFetch /\ [][FetchNext]_vars

\* The call is over.
C17_Over == fn_pc \in {"returned", "raised"}

\* The failures the claim lists: retries exhausted, a status that is not
\* retried, a timeout, a connection error.
C17_Failed ==
    LET last == fn_result.attempts[Len(fn_result.attempts)]
    IN  last.kind \in {"connection_error", "timeout"} \/ last.status >= 400

C18_HttpsNoTrailingSlash ==
    /\ ex_pc \notin {"idle", "call"} =>
          /\ Len(url) >= 3
          /\ SubSeq(url, 1, 3) = <<"https:", "/", "/">>
          /\ url[Len(url)] # "/"
    /\ ex_pc = "returned" => ex_result.website_url = url

(***************************************************************************)
(*          api/routes.py: analyze_store and analyze_competitors           *)
(*                                                                         *)
(* One request to one of the two entry points.  rt_calls is the log of the *)
(* calls the handler makes to its collaborators, in order, each with how   *)
(* it ended; rt_locals holds the handler's local variables; rt_response is *)
(* what the handler returns or raises.                                     *)
(***************************************************************************)

MaxCompetitorUrls == 2

Endpoints == {"analyze_store", "analyze_competitors"}

\* What a request of requests.head / requests.get does in
\* validate_shopify_url.
\*   "ok"                : a response with status below 400
\*   "error_status"      : a response with status 400 or above
\*   "request_exception" : the call raises a requests RequestException
\*   "other_exception"   : the call raises another exception
ProbeOutcomes == {"ok", "error_status", "request_exception", "other_exception"}

\* utils/helpers.py lines 12-47: HEAD, then GET and raise_for_status when
\* the status of HEAD is 400 or above; both except clauses return False
ValidateShopifyUrl(head, get) ==
    \/ head = "ok"
    \/ head = "error_status" /\ get = "ok"

Call(fn, result) == [fn |-> fn, result |-> result]

BoolStr(b) == IF b THEN "true" ELSE "false"

SaveFns == {"save_brand_insights", "save_competitor_analysis"}

\* The URL of the request; HttpUrl accepts only absolute URLs.
RtUrl == <<"https:", "/", "/", "acme.com">>

\* What extract_complete_insights answers for the store of the request.
RtInsights ==
    {BrandInsights(RtUrl, [InitialLocals EXCEPT !.brand_name = "Acme"]),
     FailureInsights(RtUrl, MsgNoContent),
     [FailureInsights(RtUrl, MsgNoContent) EXCEPT !.errors = <<>>]}

\* The identifier the database gives to a saved analysis.
SavedId == 1

HTTPException(status_code, detail) ==
    [kind |-> "HTTPException", status_code |-> status_code, detail |-> detail]

\* "; ".join(errors)
RECURSIVE JoinErrors(_)
JoinErrors(errors) ==
    IF errors = <<>> THEN ""
    ELSE IF Len(errors) = 1 THEN errors[1]
    ELSE errors[1] \o "; " \o JoinErrors(Tail(errors))

\* routes.py lines 88-97
SuccessResponse(insights, analysis_id) ==
    [kind |-> "SuccessResponse",
     success |-> TRUE,
     data |-> insights,
     message |-> "Successfully extracted insights from " \o insights.brand_name
                 \o (IF TruthyNum(analysis_id)
                       THEN " (saved to DB with ID: " \o ToString(analysis_id[1]) \o ")"
                       ELSE "")]

\* compititor_analysis.py lines 319-348
GetCompetitorSummary(analysis) ==
    [main_brand |-> [name |-> analysis.main_brand.brand_name,
                     total_products |-> analysis.main_brand.total_products,
                     website |-> analysis.main_brand.website_url],
     competitors_found |-> Len(analysis.competitors)]

\* routes.py lines 167-175
CompetitorResponse(analysis, analysis_id) ==
    [kind |-> "dict",
     success |-> TRUE,
     message |-> "Found " \o ToString(Len(analysis.competitors))
                 \o " competitors for " \o analysis.main_brand.brand_name,
     database_id |-> analysis_id,
     summary |-> GetCompetitorSummary(analysis),
     detailed_analysis |-> analysis]

NoResponse == [kind |-> "none"]

InitialRouteLocals ==
    [insights |-> <<>>, competitor_analysis |-> <<>>, analysis_id |-> None]

\* The handler ends with `response`.
RtEnd(response) ==
    /\ rt_response' = response
    /\ rt_pc' = "done"

\* lines 99-106 and 177-184: what leaves the handler when `raised` is raised
\* inside its try block
RouteExcept(raised) ==
    IF raised.kind = "HTTPException" THEN raised
    ELSE HTTPException(500,
           IF rt_request.endpoint = "analyze_store"
             THEN "An internal error occurred during store analysis"
             ELSE "An error occurred during competitor analysis")

\* lines 58-62 and 137-141: the test on the answer of validate_shopify_url
UnreachableGuard_Skipped(reachable) == FALSE

UnreachableGuard(reachable) == ~reachable

RT_Validate ==
    /\ rt_pc = "call"
    /\ \E head \in ProbeOutcomes, get \in ProbeOutcomes :
         LET reachable == ValidateShopifyUrl(head, get)
         IN  /\ rt_calls' = Append(rt_calls,
                   Call("validate_shopify_url", BoolStr(reachable)))
             /\ IF UnreachableGuard(reachable)
                  THEN RtEnd(RouteExcept(
                         HTTPException(401, "Website not found or not accessible")))
                  ELSE rt_pc' = "extract" /\ UNCHANGED rt_response
    /\ UNCHANGED <<rt_request, rt_locals, sim_vars, pg_vars, ex_vars, fn_vars, cc_vars>>

\* lines 68-73 and 147-151: the detail of the error for a failed extraction
ExtractionFailed(insights) ==
    IF rt_request.endpoint = "analyze_store"
      THEN HTTPException(500, "Extraction failed: " \o
             (IF insights.errors # <<>> THEN JoinErrors(insights.errors)
              ELSE "Unknown extraction error"))
      ELSE HTTPException(500, "Failed to analyze main brand")

\* lines 65-73 and 145-151
RT_Extract ==
    /\ rt_pc = "extract"
    /\ \E insights \in RtInsights :
         /\ rt_calls' = Append(rt_calls, Call("extract_complete_insights",
               IF insights.extraction_success THEN "success" ELSE "failure"))
         /\ rt_locals' = [rt_locals EXCEPT !.insights = <<insights>>]
         /\ IF ~insights.extraction_success
              THEN RtEnd(RouteExcept(ExtractionFailed(insights)))
              ELSE /\ rt_pc' = IF rt_request.endpoint = "analyze_store"
                                 THEN "save" ELSE "competitors"
                   /\ UNCHANGED rt_response
    /\ UNCHANGED <<rt_request, sim_vars, pg_vars, ex_vars, fn_vars, cc_vars>>

\* How the extraction of one competitor ends inside
\* CompetitorAnalyzer.analyze_competitors.
CompetitorOutcomes == {"success", "failure", "raises"}

RECURSIVE CompetitorOutcomeLists(_)
CompetitorOutcomeLists(n) ==
    IF n = 0 THEN {<<>>}
    ELSE {<<>>} \cup {<<o>> \o rest : o \in CompetitorOutcomes,
                                       rest \in CompetitorOutcomeLists(n - 1)}

\* compititor_analysis.py lines 52-58: a CompetitorInfo, reduced to its
\* brand name and its insights
CompetitorInfo(i) ==
    [brand_name |-> "Rival " \o ToString(i),
     insights |-> BrandInsights(RtUrl,
                    [InitialLocals EXCEPT !.brand_name = "Rival " \o ToString(i)])]

\* compititor_analysis.py lines 45-65: the loop over the competitor URLs,
\* the extraction of the i-th ending as outcomes[i]
RECURSIVE CompetitorLoop(_, _)
CompetitorLoop(outcomes, i) ==
    IF i > Len(outcomes) THEN <<>>
    ELSE (IF outcomes[i] = "success" THEN <<CompetitorInfo(i)>> ELSE <<>>)
           \o CompetitorLoop(outcomes, i + 1)

\* compititor_analysis.py lines 27-81
AnalyzeCompetitors(main_insights, outcomes) ==
    [main_brand |-> main_insights,
     competitors |-> CompetitorLoop(outcomes, 1)]

\* The calls analyze_competitors makes to extract_complete_insights.
CompetitorCalls(outcomes) ==
    [i \in DOMAIN outcomes |-> Call("extract_complete_insights", outcomes[i])]

\* routes.py line 155
RT_AnalyzeCompetitors ==
    /\ rt_pc = "competitors"
    /\ \E outcomes \in CompetitorOutcomeLists(
                          Min(rt_request.max_competitors, MaxCompetitorUrls)) :
         /\ rt_calls' = rt_calls \o CompetitorCalls(outcomes)
         /\ rt_locals' = [rt_locals EXCEPT !.competitor_analysis =
                <<AnalyzeCompetitors(rt_locals.insights[1], outcomes)>>]
    /\ rt_pc' = "save"
    /\ UNCHANGED <<rt_request, rt_response, sim_vars, pg_vars, ex_vars, fn_vars, cc_vars>>

\* How a call of the persistence sink ends.
SaveOutcomes == {"saved", "raises"}

\* routes.py line 46 and line 125: the sink of the entry point
SaveFn(endpoint) ==
    IF endpoint = "analyze_store" THEN "save_brand_insights"
    ELSE "save_competitor_analysis"

\* lines 81-85 and 160-164: the try around the save; `raised` says whether
\* an exception leaves it
SaveTry_Propagate(outcome) ==
    IF outcome = "raises" THEN [analysis_id |-> None, raised |-> TRUE]
    ELSE [analysis_id |-> Some(SavedId), raised |-> FALSE]

SaveTry(outcome) ==
    IF outcome = "raises" THEN [analysis_id |-> None, raised |-> FALSE]
    ELSE [analysis_id |-> Some(SavedId), raised |-> FALSE]

\* lines 79-85 and 157-164
RT_Save ==
    /\ rt_pc = "save"
    /\ IF rt_request.save_to_db
         THEN \E outcome \in SaveOutcomes :
                /\ rt_calls' = Append(rt_calls,
                      Call(SaveFn(rt_request.endpoint), outcome))
                /\ IF SaveTry(outcome).raised
                     THEN /\ RtEnd(RouteExcept([kind |-> "Exception"]))
                          /\ UNCHANGED rt_locals
                     ELSE /\ rt_locals' = [rt_locals EXCEPT
                                !.analysis_id = SaveTry(outcome).analysis_id]
                          /\ rt_pc' = "respond"
                          /\ UNCHANGED rt_response
         ELSE /\ rt_pc' = "respond"
              /\ UNCHANGED <<rt_calls, rt_locals, rt_response>>
    /\ UNCHANGED <<rt_request, sim_vars, pg_vars, ex_vars, fn_vars, cc_vars>>

\* lines 88-97 and 167-175
RT_Return ==
    /\ rt_pc = "respond"
    /\ RtEnd(IF rt_request.endpoint = "analyze_store"
               THEN SuccessResponse(rt_locals.insights[1], rt_locals.analysis_id)
               ELSE CompetitorResponse(rt_locals.competitor_analysis[1],
                                       rt_locals.analysis_id))
    /\ UNCHANGED <<rt_request, rt_locals, rt_calls, sim_vars, pg_vars, ex_vars,
                   fn_vars, cc_vars>>

RtNext ==
    \/ RT_Validate
    \/ RT_Extract
    \/ RT_AnalyzeCompetitors
    \/ RT_Save
    \/ RT_Return

\* A request: the entry point and its query parameters.
RtCall ==
    /\ rt_pc = "call"
    /\ rt_request \in [endpoint : Endpoints, save_to_db : BOOLEAN,
                       max_competitors : 0..MaxCompetitorUrls]
    /\ rt_locals = InitialRouteLocals
    /\ rt_calls = <<>>
    /\ rt_response = NoResponse

InitRoutes == RtCall /\ SimIdle /\ PgIdle /\ ExIdle /\ FnIdle /\ CcIdle
SpecRoutes == InitRoutes /\ [][RtNext]_vars

(***************************************************************************)
(*            Properties of analyze_store and analyze_competitors          *)
(***************************************************************************)

C19_Refused ==
    \E i \in DOMAIN rt_calls :
        rt_calls[i] = Call("validate_shopify_url", "false")

\* C19: when validate_shopify_url returns false the request ends with the
\* "Website not found or not accessible" error and extract_complete_insights
\* is never called for it; every call of extract_complete_insights comes
\* after a call of validate_shopify_url that returned true.
C19_ExtractionOnlyAfterReachable ==
    /\ \A i \in DOMAIN rt_calls :
         rt_calls[i].fn = "extract_complete_insights" =>
           \E j \in 1..(i - 1) :
               rt_calls[j] = Call("validate_shopify_url", "true")
    /\ C19_Refused =>
         /\ rt_pc = "done"
         /\ rt_response.kind = "HTTPException"
         /\ rt_response.detail = "Website not found or not accessible"
         /\ \A i \in DOMAIN rt_calls :
                rt_calls[i].fn # "extract_complete_insights"

C19_Witness ==
    /\ rt_pc = "done"
    /\ C19_Refused
    /\ rt_response = HTTPException(401, "Website not found or not accessible")

C20_SaveRaised ==
    \E i \in DOMAIN rt_calls :
        rt_calls[i].fn \in SaveFns /\ rt_calls[i].result = "raises"

\* C20: the persistence sink is called only when save_to_db is set and
\* after the extraction of the request's store returned a record with
\* extraction_success = true; when the save raises, the request still ends
\* with the success response carrying the extracted data, without a database
\* identifier.
C20_SaveNeverDecides ==
    /\ \A i \in DOMAIN rt_calls :
         rt_calls[i].fn \in SaveFns =>
           /\ rt_request.save_to_db
           /\ rt_calls[i].fn = SaveFn(rt_request.endpoint)
           /\ \E j \in 1..(i - 1) :
                  rt_calls[j] = Call("extract_complete_insights", "success")
           /\ rt_locals.insights # <<>>
           /\ rt_locals.insights[1].extraction_success
    /\ rt_pc = "done" /\ C20_SaveRaised =>
         /\ rt_response.kind # "HTTPException"
         /\ rt_response.success
         /\ rt_locals.analysis_id = None
         /\ IF rt_request.endpoint = "analyze_store"
              THEN /\ rt_response.data = rt_locals.insights[1]
                   /\ rt_response.message =
                        "Successfully extracted insights from "
                          \o rt_locals.insights[1].brand_name
              ELSE /\ rt_response.detailed_analysis.main_brand = rt_locals.insights[1]
                   /\ rt_response.database_id = None

C20_Witness ==
    /\ rt_pc = "done"
    /\ C20_SaveRaised
    /\ rt_response.kind = "SuccessResponse"
    /\ rt_response.data.extraction_success

(***************************************************************************)
(*          Properties of _calculate_similarity: the whole score           *)
(***************************************************************************)

\* lines 261-317: the scores one call with arguments (m, c) can return, in
\* thousandths
SimilarityScores(m, c) ==
    IF PriceRaises(m, c)
      THEN SimilarityExcept(WeightedSum(ComponentsBeforePrice(m, c)))
      ELSE Round3(WeightedSum(Components(m, c)))

\* C27: the whole score is symmetric: the score returned for
\* (main_brand, competitor) is a score of the call with the two arguments
\* exchanged, price and social components included, also when the
\* computation fails and 0.0 is returned.
C27_ScoreSymmetric ==
    sim_pc = "returned" =>
        /\ sim_result \in SimilarityScores(competitor, main_brand)
        /\ sim_error = PriceRaises(competitor, main_brand)
        /\ ~sim_error =>
             /\ sim_components.price = PriceSimilarity(competitor, main_brand)
             /\ sim_components.social = SocialSimilarity(competitor, main_brand)

C27_Witness ==
    /\ sim_pc = "returned"
    /\ ~sim_error
    /\ BothPriced(main_brand, competitor)
    /\ Average(PricesOf(main_brand.product_catalog))
         # Average(PricesOf(competitor.product_catalog))
    /\ SocialCount(main_brand) # SocialCount(competitor)
    /\ sim_components.price[1] > 0
    /\ sim_components.social[1] > 0

(***************************************************************************)
(*      WebScraper.normalize_url and helpers.normalize_url, applied        *)
(*      once and then again to their own result                            *)
(***************************************************************************)

MaxUrlPieces == 3

\* utils/helpers.py lines 50-68
HelpersNormalizeUrl(u) ==
    IF u = <<>> THEN <<>>
    ELSE RStripSlash(IF StartsWith(u, HttpPrefix) \/ StartsWith(u, HttpsPrefix)
                       THEN u ELSE HttpsPrefix \o u)

Normalizers == {"WebScraper.normalize_url", "helpers.normalize_url"}

NormalizeWith(which, u) ==
    IF which = "WebScraper.normalize_url" THEN NormalizeUrl(u)
    ELSE HelpersNormalizeUrl(u)

\* The pieces a URL string is made of here.
UrlPieces == {"https:", "http:", "/", "acme.com", "shop"}

UrlStrings == UNION {[1..n -> UrlPieces] : n \in 0..MaxUrlPieces}

NormalizeCall ==
    /\ fn_pc = "call"
    /\ fn_args \in [which : Normalizers, url : UrlStrings]
    /\ fn_result = <<>>

Call_NormalizeTwice ==
    /\ fn_pc = "call"
    /\ LET once == NormalizeWith(fn_args.which, fn_args.url)
       IN  fn_result' = [once |-> once,
                         twice |-> NormalizeWith(fn_args.which, once)]
    /\ fn_pc' = "returned"
    /\ UNCHANGED <<fn_args, sim_vars, pg_vars, ex_vars, rt_vars, cc_vars>>

NormalizeNext == Call_NormalizeTwice

InitNormalize == NormalizeCall /\ SimIdle /\ PgIdle /\ ExIdle /\ RtIdle /\ CcIdle
SpecNormalize == InitNormalize /\ [][NormalizeNext]_vars

\* C30: URL normalisation is idempotent: for every string u and for both
\* functions, normalising the normalised URL gives the normalised URL.
C30_Idempotent ==
    fn_pc = "returned" => fn_result.twice = fn_result.once

(***************************************************************************)
(*     Properties of extract_complete_insights: the order of requests      *)
(***************************************************************************)

C28_IsHome(r) == r.kind = "page" /\ r.target = "home"
C28_IsListing(r) == r.kind = "products"
C28_IsSubPage(r) == r.kind = "page" /\ r.target # "home"

\* C28: the homepage is the first URL requested; when that fetch fails no
\* other request is issued and the unsuccessful record is returned; the
\* product listing is fetched after the homepage and before every contact,
\* policy, FAQ or about sub-page.
C28_RequestOrder ==
    /\ requests # <<>> => C28_IsHome(requests[1])
    /\ (requests # <<>> /\ requests[1].outcome # "ok") =>
          /\ Len(requests) = 1
          /\ ex_pc = "returned"
          /\ ~ex_result.extraction_success
    /\ \A i \in DOMAIN requests :
          /\ C28_IsListing(requests[i]) =>
                \A j \in 1..(i - 1) : ~C28_IsSubPage(requests[j])
          /\ C28_IsSubPage(requests[i]) =>
                \E j \in 1..(i - 1) : C28_IsListing(requests[j])

C28_Witness ==
    /\ ex_pc = "returned"
    /\ ex_result.extraction_success
    /\ \E i \in DOMAIN requests : C28_IsListing(requests[i])
    /\ \E i \in DOMAIN requests : C28_IsSubPage(requests[i])

(***************************************************************************)
(*        Properties of get_all_products_paginated: termination            *)
(***************************************************************************)

\* A page that is neither empty, short nor failed.
C23_FullPage(data) ==
    /\ data.kind = "object"
    /\ data.has_products
    /\ Len(data.products) >= PageLimit

\* C23: the call ends exactly when the server answers a page with an empty,
\* short or failed response; there is no page ceiling: as long as every
\* page answered so far holds 50 products the loop goes on to the next page
\* and the accumulator holds at least 50 products for each page fetched.
C23_EndsOnlyOnShortPage ==
    /\ \A i \in 1..(Len(pg_bodies) - 1) : C23_FullPage(pg_bodies[i])
    /\ pg_pc = "loop" =>
          /\ \A i \in DOMAIN pg_bodies : C23_FullPage(pg_bodies[i])
          /\ page = Len(pg_bodies) + 1
          /\ Len(all_products) >= PageLimit * Len(pg_bodies)
    /\ pg_pc \in {"done", "raised"} =>
          /\ pg_bodies # <<>>
          /\ ~C23_FullPage(pg_bodies[Len(pg_bodies)])

\* The loop has passed every page the model enumerates and is still going.
C23_Witness ==
    /\ pg_pc = "loop"
    /\ page = MaxPages + 1
    /\ Len(all_products) >= PageLimit * MaxPages

(***************************************************************************)
(*   Properties of the request log: delays between successive requests     *)
(***************************************************************************)

\* Two entries of the log that belong to one multi-page operation: two
\* product-listing pages, or two sub-pages.
C26_SameOperation(r1, r2) ==
    \/ r1.kind = "products" /\ r2.kind = "products"
    \/ /\ r1.kind = "page" /\ r2.kind = "page"
       /\ r1.target # "home" /\ r2.target # "home"

\* C26: between two successive outbound requests of a multi-page operation
\* a delay step occurs: no two such requests are issued back to back.  The
\* log holds every outbound step the code takes, in order.
C26_DelayBetweenRequests ==
    \A i \in 1..(Len(requests) - 1) :
        ~C26_SameOperation(requests[i], requests[i + 1])

(***************************************************************************)
(*            Properties of extract_faqs: the FAQ pages fetched            *)
(***************************************************************************)

\* The entries accumulated when the i-th FAQ page is about to be fetched:
\* those of the homepage and those of the pages fetched before.
RECURSIVE C24_Accumulated(_)
C24_Accumulated(i) ==
    IF i = 1 THEN Len(fn_args.soup.home_faqs)
    ELSE C24_Accumulated(i - 1) +
           (IF fn_result.fetched[i - 1].outcome = "ok"
              THEN Len(FaqPageFaqs(fn_result.fetched[i - 1].target)) ELSE 0)

\* C24: extract_faqs fetches at most 3 FAQ pages, in discovery order and
\* each URL at most once, and fetches no FAQ page once the entries
\* accumulated so far number 10 or more.
C24_FetchesUntilTen ==
    fn_pc \in {"returned", "raised"} =>
        /\ Len(fn_result.fetched) <= 3
        /\ Len(fn_result.fetched) <= Len(fn_args.soup.faq_urls)
        /\ \A i \in DOMAIN fn_result.fetched :
              /\ fn_result.fetched[i].target = fn_args.soup.faq_urls[i]
              /\ \A j \in 1..(i - 1) :
                    fn_result.fetched[j].target # fn_result.fetched[i].target
              /\ C24_Accumulated(i) < 10

(***************************************************************************)
(*   DataExtractor._extract_faqs_from_page: the strategies over one page   *)
(***************************************************************************)

\* lines 291-296: the list `strategies`
PageStrategies == <<"accordion", "structured", "list", "toggle">>

\* line 301: if len(faqs) >= 5
SufficientFaqs == 5

\* The FAQs strategy s returns on a page where it finds n pairs.
StrategyOutput(s, n) ==
    [k \in 1..n |-> FAQ(s \o " question " \o ToString(k) \o "?",
                        "The answer to it.", StrategyCategory(s))]

\* lines 298-302: the loop from the i-th strategy on; found[s] is the
\* number of pairs strategy s finds on the page
RECURSIVE StrategyLoop(_, _, _)
StrategyLoop(found, i, acc) ==
    IF i > Len(PageStrategies) THEN acc
    ELSE LET s == PageStrategies[i]
             next == [faqs |-> acc.faqs \o StrategyOutput(s, found[s]),
                      ran |-> Append(acc.ran, s)]
         IN  IF Len(next.faqs) >= SufficientFaqs THEN next
             ELSE StrategyLoop(found, i + 1, next)

\* lines 286-304
ExtractFaqsFromPage(found) ==
    StrategyLoop(found, 1, [faqs |-> <<>>, ran |-> <<>>])

\* How many pairs a strategy finds on the pages enumerated.
FoundCounts == {0, 2, 5}

FaqPageCall ==
    /\ fn_pc = "call"
    /\ fn_args \in [found : [Range(PageStrategies) -> FoundCounts]]
    /\ fn_result = <<>>

Call_ExtractFaqsFromPage ==
    /\ fn_pc = "call"
    /\ fn_result' = ExtractFaqsFromPage(fn_args.found)
    /\ fn_pc' = "returned"
    /\ UNCHANGED <<fn_args, sim_vars, pg_vars, ex_vars, rt_vars, cc_vars>>

FaqPageNext == Call_ExtractFaqsFromPage

InitFaqPage == FaqPageCall /\ SimIdle /\ PgIdle /\ ExIdle /\ RtIdle /\ CcIdle
SpecFaqPage == InitFaqPage /\ [][FaqPageNext]_vars

\* The places a strategy can have in the order the claim gives: 1
\* structured-data FAQ blocks, 2 accordion/toggle widgets, 3 Q:/A: text
\* patterns, 4 list patterns.  _extract_structured_faqs looks for Q:/A:
\* patterns inside FAQ blocks and may stand for the first or the third.
C25_Places(s) ==
    CASE s = "structured" -> {1, 3}
      [] s = "accordion" -> {2}
      [] s = "toggle" -> {2}
      [] s = "list" -> {4}

\* The entries of the strategies that ran, in the order they ran.
RECURSIVE C25_Outputs(_)
C25_Outputs(ran) ==
    IF ran = <<>> THEN <<>>
    ELSE StrategyOutput(ran[1], fn_args.found[ran[1]]) \o C25_Outputs(Tail(ran))

\* C25: on a FAQ page the strategies run in the order structured-data
\* blocks, accordion/toggle widgets, Q:/A: patterns, list patterns; their
\* results are accumulated in that order; a strategy is not run once the
\* strategies before it have together produced 5 entries.
C25_StrategyOrder ==
    fn_pc = "returned" =>
        /\ \A i, j \in DOMAIN fn_result.ran :
              i < j => \E a \in C25_Places(fn_result.ran[i]),
                          b \in C25_Places(fn_result.ran[j]) : a <= b
        /\ fn_result.faqs = C25_Outputs(fn_result.ran)
        /\ \A i \in DOMAIN fn_result.ran :
              Len(C25_Outputs(SubSeq(fn_result.ran, 1, i - 1))) < 5

(***************************************************************************)
(*  Two requests to analyze_store served concurrently.  Each request gets  *)
(*  its DataExtractor from get_data_extractor; a DataExtractor owns a      *)
(*  WebScraper, which owns a requests.Session that keeps the cookies the   *)
(*  responses set and sends them with later requests.  An extraction is    *)
(*  seen here as the sequence of its fetches; everything else it works on  *)
(*  is local to the call.                                                  *)
(***************************************************************************)

RequestIds == {1, 2}

Stores == {"acme.com", "rival.com"}

\* The fetches of one extraction enumerated.
MaxFetches == 3

\* routes.py lines 18-19: DataExtractor(), which builds a WebScraper
\* (data_extractor.py line 18) with a session of its own (scraper.py lines
\* 19, 30); `sessions` holds the sessions built so far
GetDataExtractor_Singleton(sessions) == 1

GetDataExtractor(sessions) == Len(sessions) + 1

\* The remote stores: a store answers the k-th fetch of an extraction with
\* a body that depends on the cookies it is sent, and sets one more cookie.
Cookie(store, n) == [domain |-> store, id |-> n]

CookiesFor(store, jar) == {ck \in jar : ck.domain = store}

ServerBody(store, k, sent) ==
    [store |-> store, fetch |-> k, visits |-> Cardinality(sent)]

ServerSetCookie(store, sent) == Cookie(store, Cardinality(sent) + 1)

\* routes.py lines 34 and 65: Depends(get_data_extractor)
CC_Inject(r) ==
    /\ cc_pc[r] = "new"
    /\ LET extractor == GetDataExtractor(cc_sessions)
       IN  /\ cc_extractor' = [cc_extractor EXCEPT ![r] = extractor]
           /\ cc_sessions' = IF extractor > Len(cc_sessions)
                               THEN Append(cc_sessions, {})
                               ELSE cc_sessions
    /\ cc_pc' = [cc_pc EXCEPT ![r] = "fetch"]
    /\ UNCHANGED <<cc_locals, sim_vars, pg_vars, ex_vars, fn_vars, rt_vars>>

\* scraper.py lines 73 and 83: self.session.get(url, ...)
CC_Fetch(r) ==
    /\ cc_pc[r] = "fetch"
    /\ LET store == cc_locals[r].store
           k == Len(cc_locals[r].bodies) + 1
           jar == cc_sessions[cc_extractor[r]]
           sent == CookiesFor(store, jar)
       IN  /\ cc_locals' = [cc_locals EXCEPT ![r].bodies =
                  Append(@, ServerBody(store, k, sent))]
           /\ cc_sessions' = [cc_sessions EXCEPT ![cc_extractor[r]] =
                  jar \cup {ServerSetCookie(store, sent)}]
           /\ cc_pc' = [cc_pc EXCEPT ![r] =
                  IF k >= MaxFetches THEN "assemble" ELSE "fetch"]
    /\ UNCHANGED <<cc_extractor, sim_vars, pg_vars, ex_vars, fn_vars, rt_vars>>

\* data_extractor.py lines 550-564: the record built from what was fetched
CC_Return(r) ==
    /\ cc_pc[r] = "assemble"
    /\ cc_locals' = [cc_locals EXCEPT ![r].result = Some(cc_locals[r].bodies)]
    /\ cc_pc' = [cc_pc EXCEPT ![r] = "done"]
    /\ UNCHANGED <<cc_extractor, cc_sessions, sim_vars, pg_vars, ex_vars,
                   fn_vars, rt_vars>>

CcNext ==
    \E r \in RequestIds :
        \/ CC_Inject(r)
        \/ CC_Fetch(r)
        \/ CC_Return(r)

CcCall ==
    /\ cc_pc = [r \in RequestIds |-> "new"]
    /\ cc_extractor = [r \in RequestIds |-> 0]
    /\ cc_sessions = <<>>
    /\ cc_locals \in [RequestIds -> [store : Stores, bodies : {<<>>}, result : {None}]]

InitConcurrent == CcCall /\ SimIdle /\ PgIdle /\ ExIdle /\ FnIdle /\ RtIdle
SpecConcurrent == InitConcurrent /\ [][CcNext]_vars

\* What an extraction of `store` returns when it runs alone: the k-th
\* fetch is sent the cookies of the k - 1 fetches before it.
C22_Alone(store) ==
    [k \in 1..MaxFetches |->
        ServerBody(store, k, {Cookie(store, j) : j \in 1..(k - 1)})]

\* C22: two requests served concurrently share no mutable state: each has
\* a DataExtractor, and with it a session, of its own, and under every
\* interleaving each returns what it would return if it ran alone against
\* the same stores.
C22_NoSharedState ==
    /\ \A r1, r2 \in RequestIds :
          (r1 # r2 /\ cc_extractor[r1] # 0) => cc_extractor[r1] # cc_extractor[r2]
    /\ \A r \in RequestIds :
          cc_pc[r] = "done" =>
              cc_locals[r].result = Some(C22_Alone(cc_locals[r].store))

\* Both requests went to the same store, took turns, and have returned.
C22_Witness ==
    /\ \A r \in RequestIds : cc_pc[r] = "done"
    /\ cc_locals[1].store = cc_locals[2].store
    /\ cc_extractor[1] = 2 /\ cc_extractor[2] = 1

(***************************************************************************)
(*  DatabaseService.save_competitor_analysis, statement by statement.      *)
(*  fn_args holds the competitors of the analysis; fn_result holds the     *)
(*  rows the database has committed, the rows pending in the session of    *)
(*  save_competitor_analysis, and how far the call has come.               *)
(***************************************************************************)

MaxSavedCompetitors == 2

\* The analyses earlier calls have left in the database.
MaxStored == 1

\* The tables save_brand_insights writes to: the analysis row (lines 51-62)
\* and the rows of lines 67-82.
BrandTables ==
    {"store_analyses", "products", "contact_details", "social_handles",
     "policies", "faqs", "important_links"}

Row(table, analysis) == [table |-> table, analysis |-> analysis]

BrandRows(analysis) == {Row(t, analysis) : t \in BrandTables}

\* Where a call of save_brand_insights fails: nowhere, at the flush of the
\* analysis row, while the other rows are added, at the commit.
SaveFailures == {"none", "flush", "rows", "commit"}

\* The identifier the database gives the next analysis row.
NextAnalysisId(committed) ==
    Cardinality({row \in committed : row.table = "store_analyses"}) + 1

\* database_service.py lines 29-94: one session; everything is added to it
\* and committed at line 84; the except clause rolls the session back and
\* re-raises
SaveBrandInsights_KeepFlushed(committed, fail) ==
    LET id == NextAnalysisId(committed)
    IN  [committed |-> IF fail = "none" THEN committed \cup BrandRows(id)
                       ELSE IF fail = "flush" THEN committed
                       ELSE committed \cup {Row("store_analyses", id)},
         raised |-> fail # "none",
         id |-> id]

SaveBrandInsights(committed, fail) ==
    LET id == NextAnalysisId(committed)
    IN  [committed |-> IF fail = "none" THEN committed \cup BrandRows(id)
                       ELSE committed,
         raised |-> fail # "none",
         id |-> id]

\* lines 230-236: the row that links a competitor to the main analysis
LinkRow(main_id, i, competitor_id) ==
    [table |-> "competitor_analyses", analysis |-> main_id, competitor |-> i,
     competitor_analysis_id |-> competitor_id]

SaveState(committed, pending, main_id, saved, raised_at) ==
    [committed |-> committed, pending |-> pending, main_id |-> main_id,
     saved |-> saved, raised_at |-> raised_at, failure |-> "none"]

StoredRows(n) == UNION {BrandRows(a) : a \in 1..n}

\* A competitor of the analysis: with or without insights (line 226).
SavedCompetitorLists ==
    UNION {[1..n -> [has_insights : BOOLEAN]] : n \in 0..MaxSavedCompetitors}

SaveCall ==
    /\ fn_pc = "call"
    /\ fn_args \in [competitors : SavedCompetitorLists, stored : 0..MaxStored]
    /\ fn_result = SaveState(StoredRows(fn_args.stored), {}, None, <<>>, "")

\* line 217: the main brand, outside the try block
SCA_SaveMain ==
    /\ fn_pc = "call"
    /\ \E fail \in SaveFailures :
         LET r == SaveBrandInsights(fn_result.committed, fail)
         IN  IF r.raised
               THEN /\ fn_result' = [fn_result EXCEPT !.committed = r.committed,
                                                      !.raised_at = "main",
                                                      !.failure = fail]
                    /\ fn_pc' = "raised"
               ELSE /\ fn_result' = [fn_result EXCEPT !.committed = r.committed,
                                                      !.main_id = Some(r.id)]
                    /\ fn_pc' = "competitors"
    /\ UNCHANGED <<fn_args, sim_vars, pg_vars, ex_vars, rt_vars, cc_vars>>

\* lines 222-237: one competitor; lines 243-246 when its save raises
SCA_SaveCompetitor ==
    /\ fn_pc = "competitors"
    /\ Len(fn_result.saved) < Len(fn_args.competitors)
    /\ LET i == Len(fn_result.saved) + 1
       IN  IF fn_args.competitors[i].has_insights
             THEN \E fail \in SaveFailures :
                    LET r == SaveBrandInsights(fn_result.committed, fail)
                    IN  IF r.raised
                          THEN /\ fn_result' = [fn_result EXCEPT
                                     !.committed = r.committed,
                                     !.pending = {},
                                     !.raised_at = "competitor",
                                     !.failure = fail]
                               /\ fn_pc' = "raised"
                          ELSE /\ fn_result' = [fn_result EXCEPT
                                     !.committed = r.committed,
                                     !.pending = @ \cup
                                        {LinkRow(fn_result.main_id[1], i, Some(r.id))},
                                     !.saved = Append(@, Some(r.id))]
                               /\ fn_pc' = "competitors"
             ELSE /\ fn_result' = [fn_result EXCEPT
                        !.pending = @ \cup {LinkRow(fn_result.main_id[1], i, None)},
                        !.saved = Append(@, None)]
                  /\ fn_pc' = "competitors"
    /\ UNCHANGED <<fn_args, sim_vars, pg_vars, ex_vars, rt_vars, cc_vars>>

\* lines 238-246: db.commit(), return main_analysis_id; rollback and raise
\* when the commit fails
SCA_Commit ==
    /\ fn_pc = "competitors"
    /\ Len(fn_result.saved) = Len(fn_args.competitors)
    /\ \E ok \in BOOLEAN :
         IF ok
           THEN /\ fn_result' = [fn_result EXCEPT
                      !.committed = @ \cup fn_result.pending, !.pending = {}]
                /\ fn_pc' = "returned"
           ELSE /\ fn_result' = [fn_result EXCEPT
                      !.pending = {}, !.raised_at = "commit",
                      !.failure = "commit"]
                /\ fn_pc' = "raised"
    /\ UNCHANGED <<fn_args, sim_vars, pg_vars, ex_vars, rt_vars, cc_vars>>

SaveNext ==
    \/ SCA_SaveMain
    \/ SCA_SaveCompetitor
    \/ SCA_Commit

InitSave == SaveCall /\ SimIdle /\ PgIdle /\ ExIdle /\ RtIdle /\ CcIdle
SpecSave == InitSave /\ [][SaveNext]_vars

\* The analyses of which the database holds a row of some table.
C29_Touched ==
    {row.analysis : row \in {x \in fn_result.committed : x.table \in BrandTables}}

C29_Links == {row \in fn_result.committed : row.table = "competitor_analyses"}

\* The analyses save_brand_insights has committed so far in this call.
C29_Saved ==
    (IF fn_result.main_id = None THEN {} ELSE {fn_result.main_id[1]})
      \cup {fn_result.saved[i][1] :
              i \in {j \in DOMAIN fn_result.saved : fn_result.saved[j] # None}}

\* C29: save_competitor_analysis is not all-or-nothing: the main analysis
\* and each competitor's analysis are committed one by one before the link
\* rows; when a later save or the final commit fails the call drops only
\* the uncommitted link rows and re-raises, and what was committed before
\* stays; a failure inside one save_brand_insights call leaves no row of
\* that analysis.
C29_CommitsOneByOne ==
    /\ \A a \in C29_Touched : BrandRows(a) \subseteq fn_result.committed
    /\ C29_Touched = C29_Saved \cup 1..fn_args.stored
    /\ fn_pc # "returned" => C29_Links = {}
    /\ fn_pc = "raised" =>
          /\ fn_result.pending = {}
          /\ fn_result.raised_at = "main" =>
                fn_result.committed = StoredRows(fn_args.stored)
          /\ fn_result.raised_at \in {"competitor", "commit"} =>
                BrandRows(fn_result.main_id[1]) \subseteq fn_result.committed
    /\ fn_pc = "returned" =>
          Cardinality(C29_Links) = Len(fn_args.competitors)

\* The call raised at the second competitor: the main analysis and the
\* first competitor's analysis stay, no link row does.
C29_Witness ==
    /\ fn_pc = "raised"
    /\ fn_result.raised_at = "competitor"
    /\ fn_args.stored = 0
    /\ C29_Saved = {1, 2}
    /\ BrandRows(1) \cup BrandRows(2) = fn_result.committed

(***************************************************************************)
(*  CompetitorAnalyzer.analyze_competitors and _find_competitors, with     *)
(*  the candidate URLs themselves.  fn_args holds the main brand's         *)
(*  website_url, max_competitors and what the three finders return;        *)
(*  fn_result holds competitor_urls, the place in the loop and the         *)
(*  competitors list.                                                      *)
(***************************************************************************)

MaxCompetitorCount == 2
MaxGoogleResults == 2

\* helpers.py lines 98-113: urlparse(url).netloc.lower() without 'www.',
\* "" when the URL has no netloc
ExtractDomain(c_url) ==
    CASE c_url = "https://acme.com"          -> "acme.com"
      [] c_url = "https://www.acme.com/shop" -> "acme.com"
      [] c_url = "http://ACME.com"           -> "acme.com"
      [] c_url = "https://rival.com"         -> "rival.com"
      [] c_url = "https://www.rival.com/"    -> "rival.com"
      [] c_url = "https://shopacme.com"      -> "shopacme.com"
      [] c_url = "https://acmestore.com"     -> "acmestore.com"
      [] OTHER                             -> ""

\* The website_url of the main brand: a store, and the "https:" that
\* normalize_url makes of "/".
MainUrls == {"https://acme.com", "https:"}

GoogleUrls ==
    {"https://www.acme.com/shop", "http://ACME.com", "https://rival.com",
     "https://www.rival.com/"}

GoogleResults ==
    UNION {[1..n -> GoogleUrls] : n \in 0..MaxGoogleResults}

\* What _find_similar_domains and _find_competitors_by_keywords return.
DomainResults ==
    {<<>>, <<"https://shopacme.com">>,
     <<"https://shopacme.com", "https://acmestore.com">>}
KeywordResults == {<<>>, <<"https://rival.com">>, <<"https://www.acme.com/shop">>}

\* The lists a set can be iterated as, cut to n places.
OrderingsCut(set, n) ==
    {q \in [1..Min(n, Cardinality(set)) -> set] :
        \A i, j \in DOMAIN q : i # j => q[i] # q[j]}

\* compititor_analysis.py lines 83-106
FindCompetitors_Unfiltered(main_url, max_competitors, google, domains, keywords) ==
    LET first  == Range(Take(google, max_competitors))
        second == IF Cardinality(first) < max_competitors
                    THEN first \cup Range(domains) ELSE first
        third  == IF Cardinality(second) < max_competitors
                    THEN second \cup Range(keywords) ELSE second
    IN  OrderingsCut(third, max_competitors)

FindCompetitors(main_url, max_competitors, google, domains, keywords) ==
    LET first  == Range(Take(google, max_competitors))
        second == IF Cardinality(first) < max_competitors
                    THEN first \cup Range(domains) ELSE first
        third  == IF Cardinality(second) < max_competitors
                    THEN second \cup Range(keywords) ELSE second
        main_domain == ExtractDomain(main_url)
        kept   == {c_url \in third : ExtractDomain(c_url) # main_domain}
    IN  OrderingsCut(kept, max_competitors)

\* What _calculate_similarity returns, in thousandths.
SimilarityValues == {0, 425, 1000}

\* The record extract_complete_insights returns for a competitor URL.
CompetitorInsights(c_url, success) ==
    [website_url |-> c_url, brand_name |-> ExtractDomain(c_url),
     extraction_success |-> success]

\* lines 52-57
ScoredCompetitor(c_url, insights, score) ==
    [brand_name |-> insights.brand_name, website_url |-> c_url,
     similarity_score |-> Some(score), insights |-> Some(insights)]

AnalyzeCall ==
    /\ fn_pc = "call"
    /\ fn_args \in [main_url : MainUrls,
                    max_competitors : 0..MaxCompetitorCount,
                    google : GoogleResults,
                    domains : DomainResults,
                    keywords : KeywordResults]
    /\ fn_result = [urls |-> <<>>, i |-> 0, competitors |-> <<>>,
                    skipped |-> <<>>, analysis |-> None]

\* line 42
AC_FindCompetitors ==
    /\ fn_pc = "call"
    /\ \E urls \in FindCompetitors(fn_args.main_url, fn_args.max_competitors,
                                   fn_args.google, fn_args.domains,
                                   fn_args.keywords) :
         fn_result' = [fn_result EXCEPT !.urls = urls, !.i = 1]
    /\ fn_pc' = "loop"
    /\ UNCHANGED <<fn_args, sim_vars, pg_vars, ex_vars, rt_vars, cc_vars>>

\* lines 46-69, one turn of the loop: the extraction succeeds, returns a
\* record with extraction_success false, or raises
AC_AnalyzeOne ==
    /\ fn_pc = "loop"
    /\ fn_result.i <= Len(fn_result.urls)
    /\ LET c_url == fn_result.urls[fn_result.i]
       IN  \E outcome \in CompetitorOutcomes :
             IF outcome = "success"
               THEN \E score \in SimilarityValues :
                      fn_result' = [fn_result EXCEPT
                         !.i = @ + 1,
                         !.competitors = Append(@,
                            ScoredCompetitor(c_url, CompetitorInsights(c_url, TRUE), score))]
               ELSE fn_result' = [fn_result EXCEPT
                         !.i = @ + 1, !.skipped = Append(@, c_url)]
    /\ fn_pc' = "loop"
    /\ UNCHANGED <<fn_args, sim_vars, pg_vars, ex_vars, rt_vars, cc_vars>>

\* lines 71-74
AC_Return ==
    /\ fn_pc = "loop"
    /\ fn_result.i > Len(fn_result.urls)
    /\ fn_result' = [fn_result EXCEPT !.analysis =
          Some([main_brand |-> fn_args.main_url,
                competitors |-> fn_result.competitors])]
    /\ fn_pc' = "returned"
    /\ UNCHANGED <<fn_args, sim_vars, pg_vars, ex_vars, rt_vars, cc_vars>>

AnalyzeNext ==
    \/ AC_FindCompetitors
    \/ AC_AnalyzeOne
    \/ AC_Return

InitAnalyze == AnalyzeCall /\ SimIdle /\ PgIdle /\ ExIdle /\ RtIdle /\ CcIdle
SpecAnalyze == InitAnalyze /\ [][AnalyzeNext]_vars

====
